---- MODULE Spec2Model ----
(***************************************************************************)
(* Model of the AcaiaArduinoBLE connection state machine                   *)
(* (lib/AcaiaArduinoBLE/AcaiaArduinoBLE.cpp).                              *)
(*                                                                         *)
(* Two contexts share the session object:                                  *)
(*   - the polling context, which calls init(), update(), the commands and *)
(*     newWeightAvailable(); its position inside a call is pc;             *)
(*   - the NimBLE host task, which delivers the scan result, the           *)
(*     disconnect and the notification callbacks; the position inside      *)
(*     onDisconnect is cbpc.                                               *)
(* The transport (scan object, client link, peer GATT table) is the        *)
(* environment: scanning, linkUp, subscribed.                              *)
(***************************************************************************)
EXTENDS Integers, Sequences, FiniteSets, TLC

\* ------------------------------------------------------------------ bounds
\* the last instant (milliseconds since boot) the clock is followed to
MaxTime == 10200

\* the instants at which the polling context and the callbacks read millis()
Instants == {0, 200, 400, 600, 1100, 3400, 10200}

\* the instants at which the connected scale sends a frame
PacketInstants == {600, 1100}

\* ------------------------------------------------------- program constants
HEARTBEAT_PERIOD_MS == 2750
MAX_PACKET_PERIOD_MS == 8000
SCAN_TIMEOUT_MS == 10000
STEP_TIMEOUT_MS == 5000
SHORT_TIMEOUT_MS == 2000
RECONNECT_DELAY_MS == 500
SETTLE_DELAY_MS == 200

\* enum ConnectionState
CONN_IDLE == "Idle"
CONN_SCANNING == "Scanning"
CONN_CONNECTING == "Connecting"
CONN_DISCOVERING == "Discovering"
CONN_SUBSCRIBING == "Subscribing"
CONN_IDENTIFYING == "Identifying"
CONN_BATTERY == "Battery"
CONN_NOTIFICATIONS == "Notifications"
CONN_CONNECTED == "Connected"
CONN_FAILED == "Failed"
CONN_RECONNECT_DELAY == "Reconnect Delay"

ConnectionState ==
    { CONN_IDLE, CONN_SCANNING, CONN_CONNECTING, CONN_DISCOVERING,
      CONN_SUBSCRIBING, CONN_IDENTIFYING, CONN_BATTERY, CONN_NOTIFICATIONS,
      CONN_CONNECTED, CONN_FAILED, CONN_RECONNECT_DELAY }

HandshakeStates ==
    { CONN_SCANNING, CONN_CONNECTING, CONN_DISCOVERING, CONN_SUBSCRIBING,
      CONN_IDENTIFYING, CONN_BATTERY, CONN_NOTIFICATIONS }

\* enum scale_type (NEW is a reserved word, so the members carry a prefix)
TYPE_OLD == "OLD"
TYPE_NEW == "NEW"
TYPE_GENERIC == "GENERIC"
scale_type == { TYPE_OLD, TYPE_NEW, TYPE_GENERIC }

\* a pointer field: absent, pointing at a live transport object, or
\* pointing at an object the transport has already freed
NULL == "null"
LIVE == "ok"
DANGLING == "dangling"

\* the five command entry points
Commands == { "tare", "startTimer", "stopTimer", "resetTimer", "heartbeat" }

\* ---------------------------------------------------------------- the peers
\* An address stands for one advertising device and its GATT table:
\*   svc   the scale services it offers,
\*   read  the services whose read characteristic exists and can notify,
\*   write the services whose write characteristic exists.
Addresses == { "aNew", "aNoWr", "aNone", "aOther" }

Profile(a) ==
    CASE a = "aNew"  -> [svc |-> {TYPE_OLD, TYPE_NEW, TYPE_GENERIC},
                         read |-> {TYPE_NEW, TYPE_GENERIC},
                         write |-> {TYPE_NEW, TYPE_GENERIC}]
      [] a = "aNoWr" -> [svc |-> {TYPE_NEW}, read |-> {TYPE_NEW}, write |-> {}]
      [] OTHER       -> [svc |-> {}, read |-> {}, write |-> {}]

\* target addresses handed to init()
Macs == { "aa:bb" }

\* advertised names, as character sequences
NameAcaia == << "A", "C", "A", "I", "A", "1" >>
NameFelic == << "F", "E", "L", "I", "C" >>
NameOther == << "M", "i", "B", "a", "n", "d" >>
NameShort == << "A", "C", "A" >>
NameEmpty == << >>
NameAcaiaOnly == << "A", "C", "A", "I", "A" >>
NameAcaiaLong == << "A", "C", "A", "I", "A", " ", "x", "y" >>
NameAcaiaLower == << "a", "c", "a", "i", "a", "1" >>
NameAcaiaMixed == << "A", "c", "a", "i", "a" >>
NameAcai == << "A", "C", "A", "I" >>
NameAcaix == << "A", "C", "A", "I", "X", "A" >>
NameShifted == << "X", "A", "C", "A", "I", "A" >>
NameCinco == << "C", "I", "N", "C", "O", "7" >>
NamePyxis == << "P", "Y", "X", "I", "S" >>
NameLunar == << "L", "U", "N", "A", "R", "-", "2" >>
NameProch == << "P", "R", "O", "C", "H", "2" >>
NamePearl == << "P", "E", "A", "R", "L", "S" >>
NameOtherOnly == << "M", "i", "B", "a", "n" >>
AdvertNames ==
    { NameAcaia, NameFelic, NameOther, NameShort, NameEmpty, NameAcaiaOnly,
      NameAcaiaLong, NameAcaiaLower, NameAcaiaMixed, NameAcai, NameAcaix,
      NameShifted, NameCinco, NamePyxis, NameLunar, NameProch, NamePearl,
      NameOtherOnly }

\* the names the device at an address advertises: "aOther" is not a scale and
\* only ever sends names that are not a scale's, the others may send any name
OtherNames ==
    { NameOther, NameShort, NameEmpty, NameAcaiaLower, NameAcaiaMixed,
      NameAcai, NameAcaix, NameShifted, NamePearl, NameOtherOnly }

Advertised(a) == IF a = "aOther" THEN OtherNames ELSE AdvertNames

VARIABLES
    \* session fields (AcaiaArduinoBLE.h:135-157)
    connState, connStateStart, connTimeout, mac,
    connected, deviceFound, deviceAddress, type,
    currentWeight, lastPacket, packetPeriod, lastHeartBeat,
    pClient, pService, pWriteChar, pReadChar, pScan,
    \* transport / environment
    now, scanning, linkUp, subscribed,
    \* control
    pc, cmd, probe, tmp, cbpc,
    \* observation: the call in progress (or the one that returned in the last
    \* step), its return value, and what the last step did to the transport
    op, ret, tx, ub,
    \* history: the type assigned since the last entry to Scanning, or "none"
    selected

vars ==
    << connState, connStateStart, connTimeout, mac,
       connected, deviceFound, deviceAddress, type,
       currentWeight, lastPacket, packetPeriod, lastHeartBeat,
       pClient, pService, pWriteChar, pReadChar, pScan,
       now, scanning, linkUp, subscribed,
       pc, cmd, probe, tmp, cbpc, op, ret, tx, ub, selected >>

stateVars == << connState, connStateStart, connTimeout >>
handleVars == << pService, pWriteChar, pReadChar >>
timerVars == << lastPacket, packetPeriod, lastHeartBeat >>
flagVars == << connected, deviceFound >>
miscVars == << mac, deviceAddress, type, currentWeight, selected >>
envVars == << scanning, linkUp, subscribed >>
ctlVars == << cmd, probe, tmp >>
obsVars == << op, ret, tx, ub >>

\* what a step reports in tx for a transport call that returned r: the call,
\* and "failed" when it returned failure
Issued(call, r) == IF r = "fail" THEN {call, "failed"} ELSE {call}

\* a step inside a call: it issued the transport operations t, and u tells
\* whether it went through an absent or freed pointer
Step(t, u) == op' = op /\ ret' = ret /\ tx' = t /\ ub' = u

\* the step in which a call returns r
Return(r, t, u) == op' = op /\ ret' = r /\ tx' = t /\ ub' = u

\* a step of the environment: the observation of a finished call is dropped
Forget ==
    /\ op' = IF pc = "idle" THEN "none" ELSE op
    /\ ret' = IF pc = "idle" THEN FALSE ELSE ret
    /\ tx' = {}
    /\ ub' = FALSE

\* ------------------------------------------------------------------ helpers

\* String::substring(0, 5): the first five characters, or all of a shorter name
\* faulty variant: the name is not cut
substringWhole(name) == name

substring5(name) ==
    IF Len(name) <= 5 THEN name ELSE SubSeq(name, 1, 5)

ScalePrefixes ==
    { << "C", "I", "N", "C", "O" >>, << "A", "C", "A", "I", "A" >>,
      << "P", "Y", "X", "I", "S" >>, << "L", "U", "N", "A", "R" >>,
      << "P", "R", "O", "C", "H" >>, << "F", "E", "L", "I", "C" >> }

isScaleName(name) == substring5(name) \in ScalePrefixes

\* weights are exact decimals: m / 10^e
Weight(m, e) == [m |-> m, e |-> e]

\* faulty variant: the state-entry timestamp is not refreshed
transitionToStaleStart(newState, timeout) ==
    /\ connState' = newState
    /\ connStateStart' = connStateStart
    /\ connTimeout' = timeout

\* millis() - t in unsigned long arithmetic: a timestamp ahead of the clock
\* wraps to a huge difference (every instant of the model is far below the
\* modulus used here, 2^30, so the result is the one 2^32 gives wherever the
\* two are compared with a period of the program)
Elapsed(t) == (now - t) % 1073741824

\* transitionTo(newState, timeout)
transitionTo(newState, timeout) ==
    /\ connState' = newState
    /\ connStateStart' = now
    /\ connTimeout' = timeout

\* NimBLEClient::isConnected() on a client that exists
clientConnected == pClient # NULL /\ linkUp

\* outcome of a call made through a handle: a live handle on a live link may
\* succeed or fail, a live handle on a dead link fails, and a call through an
\* absent or freed handle is undefined (any result, or a crash)
CallOutcomes(h) ==
    IF h = LIVE
        THEN IF linkUp THEN {"ok", "fail"} ELSE {"fail"}
        ELSE {"ok", "fail", "crash"}


\* values an uninitialised long member may hold (the constructor sets neither
\* _lastPacket nor _lastHeartBeat)
Uninitialised == {0, 1}

\* ------------------------------------------------------------- construction
\* AcaiaArduinoBLE::AcaiaArduinoBLE()
Init ==
    /\ connState = CONN_IDLE
    /\ connStateStart = 0
    /\ connTimeout = 0
    /\ mac = ""
    /\ connected = FALSE
    /\ deviceFound = FALSE
    /\ deviceAddress = "unset"
    /\ type \in scale_type
    /\ currentWeight = Weight(999, 0)
    /\ lastPacket \in Uninitialised
    /\ packetPeriod = 0
    /\ lastHeartBeat \in Uninitialised
    /\ pClient = NULL
    /\ pService = NULL
    /\ pWriteChar = NULL
    /\ pReadChar = NULL
    /\ pScan = NULL
    /\ now = 0
    /\ scanning = FALSE
    /\ linkUp = FALSE
    /\ subscribed = FALSE
    /\ pc = "idle"
    /\ op = "none"
    /\ cmd = "none"
    /\ probe = TYPE_OLD
    /\ tmp = NULL
    /\ cbpc = "none"
    /\ ret = FALSE
    /\ tx = {}
    /\ ub = FALSE
    /\ selected = "none"

\* ------------------------------------------------------------------- clock
\* millis() advances between two calls of the polling context
Tick ==
    /\ pc = "idle"
    /\ \E t \in Instants :
          /\ t > now
          /\ t <= MaxTime
          /\ now' = t
    /\ Forget
    /\ UNCHANGED << stateVars, handleVars, timerVars, flagVars, miscVars,
                    pClient, pScan, envVars, pc, ctlVars, cbpc >>

\* --------------------------------------------------------------- transport
\* NimBLEClient::disconnect(): the link goes down and the transport owes the
\* session one onDisconnect callback
CbAfterDisconnect == IF linkUp /\ cbpc = "none" THEN "pending" ELSE cbpc

\* NimBLEDevice::deleteClient(): the link (if any) is gone with the client
\* object, and a callback that has not started yet is never delivered
CbAfterDelete == IF cbpc = "pending" THEN "none" ELSE cbpc

\* a pointer into the client's attribute table after the table is freed
Freed(h) == IF h = NULL THEN NULL ELSE DANGLING

\* what NimBLEDevice::getScan() can return: the scan object of a running scan,
\* otherwise an object or nothing
ScanAvailable == IF scanning THEN {TRUE} ELSE BOOLEAN

\* ------------------------------------------------------------------ init()
\* faulty variant: only a handshake in progress is protected from a restart
initRejectsHandshakeOnly == connState \in HandshakeStates

\* the guard that opens init() (line 140)
initRejects == connState # CONN_IDLE /\ connState # CONN_FAILED

\* bool AcaiaArduinoBLE::init(String mac)
init(m) ==
    /\ pc = "idle"
    /\ op' = "init"
    /\ ub' = FALSE
    /\ IF initRejects
          THEN /\ ret' = FALSE
               /\ tx' = {}
               /\ UNCHANGED << stateVars, mac, lastPacket, connected,
                               deviceFound, pScan, scanning, selected >>
          ELSE /\ mac' = m
               /\ lastPacket' = 0
               /\ connected' = FALSE
               /\ deviceFound' = FALSE
               /\ \E avail \in ScanAvailable :
                     IF ~avail
                        THEN /\ pScan' = NULL
                             /\ ret' = FALSE
                             /\ tx' = {}
                             /\ UNCHANGED << stateVars, scanning, selected >>
                        ELSE /\ pScan' = LIVE
                             /\ scanning' = TRUE
                             /\ tx' = {"scanStart"}
                             /\ transitionTo(CONN_SCANNING, SCAN_TIMEOUT_MS)
                             /\ selected' = "none"
                             /\ ret' = TRUE
    /\ UNCHANGED << handleVars, packetPeriod, lastHeartBeat, deviceAddress,
                    type, currentWeight, pClient, now, linkUp, subscribed,
                    pc, ctlVars, cbpc >>

\* ---------------------------------------------------------------- update()
\* the handler update() dispatches to for a connection state
HandlerOf(st) ==
    CASE st = CONN_SCANNING        -> "stateScanning"
      [] st = CONN_CONNECTING      -> "stateConnecting"
      [] st = CONN_DISCOVERING     -> "stateDiscovering"
      [] st = CONN_SUBSCRIBING     -> "stateSubscribing"
      [] st = CONN_IDENTIFYING     -> "stateIdentifying"
      [] st = CONN_BATTERY         -> "stateBattery"
      [] st = CONN_NOTIFICATIONS   -> "stateNotifications"
      [] st = CONN_FAILED          -> "stateFailed"
      [] st = CONN_RECONNECT_DELAY -> "stateReconnectDelay"
      [] OTHER                     -> "idle"

\* faulty variant: the two short states are left out of the timeout check
TimedStateLongOnly(st) ==
    st \in { CONN_SCANNING, CONN_CONNECTING, CONN_DISCOVERING,
             CONN_SUBSCRIBING, CONN_IDENTIFYING }

\* the states update() applies the timeout to (update(), lines 777-778)
TimedState(st) ==
    st # CONN_IDLE /\ st # CONN_CONNECTED /\ st # CONN_FAILED
        /\ st # CONN_RECONNECT_DELAY

\* millis() - _connStateStart > _connTimeout
TimedOut == Elapsed(connStateStart) > connTimeout

\* update(), lines 780-792: the timeout branch
updateTimeout ==
    /\ scanning' = IF pScan # NULL /\ scanning THEN FALSE ELSE scanning
    /\ linkUp' = IF clientConnected THEN FALSE ELSE linkUp
    /\ subscribed' = IF clientConnected THEN FALSE ELSE subscribed
    /\ cbpc' = IF clientConnected THEN CbAfterDisconnect ELSE cbpc
    /\ tx' = (IF pScan # NULL /\ scanning THEN {"scanStop"} ELSE {})
                \cup (IF clientConnected THEN {"disconnect"} ELSE {})
    /\ transitionTo(CONN_FAILED, 0)
    /\ ret' = FALSE
    /\ pc' = "idle"

\* update(), lines 796-830: the switch; Idle and Connected return at once
updateDispatch ==
    /\ tx' = {}
    /\ pc' = HandlerOf(connState)
    /\ ret' = (connState = CONN_CONNECTED)
    /\ UNCHANGED << stateVars, envVars, cbpc >>

\* bool AcaiaArduinoBLE::update(): the timeout check and the switch
update ==
    /\ pc = "idle"
    /\ op' = "update"
    /\ ub' = FALSE
    /\ IF TimedState(connState) /\ TimedOut
          THEN updateTimeout
          ELSE updateDispatch
    /\ UNCHANGED << handleVars, timerVars, flagVars, miscVars, pClient, pScan,
                    now, ctlVars >>

\* faulty variant: the connected flag is returned instead of the state test
updateReturnFlag ==
    /\ pc = "upd_ret"
    /\ Return(connected, {}, FALSE)
    /\ pc' = "idle"
    /\ UNCHANGED << stateVars, handleVars, timerVars, flagVars, miscVars,
                    pClient, pScan, now, envVars, ctlVars, cbpc >>

\* return _connState == CONN_CONNECTED;  (update(), line 887)
updateReturn ==
    /\ pc = "upd_ret"
    /\ Return(connState = CONN_CONNECTED, {}, FALSE)
    /\ pc' = "idle"
    /\ UNCHANGED << stateVars, handleVars, timerVars, flagVars, miscVars,
                    pClient, pScan, now, envVars, ctlVars, cbpc >>

\* void AcaiaArduinoBLE::stateScanning()
stateScanning ==
    /\ pc = "stateScanning"
    /\ pc' = "upd_ret"
    /\ IF deviceFound
          THEN /\ scanning' = FALSE
               /\ Step({"scanStop"}, pScan # LIVE)
               /\ transitionTo(CONN_CONNECTING, STEP_TIMEOUT_MS)
          ELSE /\ Step({}, FALSE)
               /\ UNCHANGED << scanning, stateVars >>
    /\ UNCHANGED << handleVars, timerVars, flagVars, miscVars, pClient, pScan,
                    now, linkUp, subscribed, ctlVars, cbpc >>

\* _pClient->connect(): it cannot succeed while the client still waits for the
\* disconnect event of its previous link
ConnectOutcomes == IF cbpc = "pending" THEN {FALSE} ELSE BOOLEAN

\* void AcaiaArduinoBLE::stateConnecting(): NimBLEDevice::createClient() and
\* NimBLEClient::connect(); connect() rebuilds the client's attribute table,
\* so handles kept from an earlier link no longer point at live objects
stateConnecting ==
    /\ pc = "stateConnecting"
    /\ \E created \in BOOLEAN, linked \in ConnectOutcomes :
          IF pClient = NULL /\ ~created
             THEN /\ transitionTo(CONN_FAILED, 0)
                  /\ Step(Issued("createClient", "fail"), FALSE)
                  /\ pc' = "upd_ret"
                  /\ UNCHANGED << pClient, linkUp, subscribed, deviceFound,
                                  handleVars >>
             ELSE /\ pClient' = LIVE
                  /\ Step(Issued("connect", IF linked THEN "ok" ELSE "fail")
                            \cup (IF pClient = NULL THEN {"createClient"} ELSE {}),
                          FALSE)
                  /\ IF linked
                        THEN /\ linkUp' = TRUE
                             /\ subscribed' = FALSE
                             /\ pService' = Freed(pService)
                             /\ pReadChar' = Freed(pReadChar)
                             /\ pWriteChar' = Freed(pWriteChar)
                             /\ pc' = "conn_linked"
                             /\ UNCHANGED << stateVars, deviceFound >>
                        ELSE /\ deviceFound' = FALSE
                             /\ transitionTo(CONN_FAILED, 0)
                             /\ pc' = "upd_ret"
                             /\ UNCHANGED << linkUp, subscribed, handleVars >>
    /\ UNCHANGED << timerVars, connected, miscVars, pScan, now, scanning,
                    ctlVars, cbpc >>

\* stateConnecting(), line 499: transitionTo(CONN_DISCOVERING, 5000)
stateConnectingLinked ==
    /\ pc = "conn_linked"
    /\ transitionTo(CONN_DISCOVERING, STEP_TIMEOUT_MS)
    /\ pc' = "upd_ret"
    /\ Step({}, FALSE)
    /\ UNCHANGED << handleVars, timerVars, flagVars, miscVars, pClient, pScan,
                    now, envVars, ctlVars, cbpc >>

\* faulty variant: the call goes on into the Subscribing handler
stateDiscoveringFallsThrough ==
    /\ pc = "stateDiscovering"
    /\ transitionTo(CONN_SUBSCRIBING, STEP_TIMEOUT_MS)
    /\ pc' = "stateSubscribing"
    /\ Step({}, FALSE)
    /\ UNCHANGED << handleVars, timerVars, flagVars, miscVars, pClient, pScan,
                    now, envVars, ctlVars, cbpc >>

\* void AcaiaArduinoBLE::stateDiscovering()
stateDiscovering ==
    /\ pc = "stateDiscovering"
    /\ transitionTo(CONN_SUBSCRIBING, STEP_TIMEOUT_MS)
    /\ pc' = "upd_ret"
    /\ Step({}, FALSE)
    /\ UNCHANGED << handleVars, timerVars, flagVars, miscVars, pClient, pScan,
                    now, envVars, ctlVars, cbpc >>

\* the polling context dies on a call through an absent or freed pointer
Crash ==
    /\ pc' = "crashed"
    /\ Step({}, TRUE)
    /\ UNCHANGED << stateVars, handleVars, timerVars, flagVars, miscVars,
                    pClient, pScan, now, envVars, ctlVars, cbpc >>

\* a failure exit of stateSubscribing(): transitionTo(CONN_FAILED, 0); return
SubFail ==
    /\ transitionTo(CONN_FAILED, 0)
    /\ probe' = TYPE_OLD
    /\ tmp' = NULL
    /\ pc' = "upd_ret"
    /\ UNCHANGED cmd

\* NimBLEClient::getService(uuid) for the service of scale type t
getService(t) ==
    IF linkUp /\ t \in Profile(deviceAddress).svc THEN LIVE ELSE NULL

\* the probe that follows t in stateSubscribing()
NextProbe(t) == IF t = TYPE_OLD THEN TYPE_NEW ELSE TYPE_GENERIC

\* void AcaiaArduinoBLE::stateSubscribing(), lines 531-539: the entry check
\* and the lookup of the OLD service
stateSubscribing ==
    /\ pc = "stateSubscribing"
    /\ IF pClient = NULL \/ ~linkUp
          THEN /\ SubFail
               /\ UNCHANGED pService
          ELSE /\ pService' = getService(TYPE_OLD)
               /\ probe' = TYPE_OLD
               /\ tmp' = NULL
               /\ pc' = IF getService(TYPE_OLD) # NULL THEN "sub_chars" ELSE "sub_next"
               /\ UNCHANGED << stateVars, cmd >>
    /\ Step({}, FALSE)
    /\ UNCHANGED << pWriteChar, pReadChar, timerVars, flagVars, miscVars,
                    pClient, pScan, now, envVars, cbpc >>

\* _pService->getCharacteristics(true) and the connection check after it
\* (lines 541-548, 572-579, 605-612)
subGetCharacteristics ==
    /\ pc = "sub_chars"
    /\ \/ /\ pService # LIVE
          /\ Crash
       \/ /\ Step({}, pService # LIVE)
          /\ IF ~linkUp
                THEN SubFail
                ELSE /\ pc' = "sub_getchar"
                     /\ UNCHANGED << stateVars, ctlVars >>
          /\ UNCHANGED << handleVars, timerVars, flagVars, miscVars, pClient,
                          pScan, now, envVars, cbpc >>

\* what _pService->getCharacteristic(uuid) can return: the cached entry of a
\* live service, anything through an absent or freed one
Lookup(present) ==
    IF pService = LIVE THEN {IF present THEN LIVE ELSE NULL}
    ELSE {NULL, DANGLING}

\* tempReadChar = _pService->getCharacteristic(READ_CHAR_x) and the connection
\* check after it (lines 550-557, 581-589, 614-621)
subGetCharacteristic ==
    /\ pc = "sub_getchar"
    /\ \/ /\ pService # LIVE
          /\ Crash
       \/ /\ Step({}, pService # LIVE)
          /\ \E found \in Lookup(probe \in Profile(deviceAddress).read) :
                IF ~linkUp
                   THEN SubFail
                   ELSE /\ tmp' = found
                        /\ pc' = "sub_commit"
                        /\ UNCHANGED << stateVars, cmd, probe >>
          /\ UNCHANGED << handleVars, timerVars, flagVars, miscVars, pClient,
                          pScan, now, envVars, cbpc >>

\* if (tempReadChar && tempReadChar->canNotify()) { _type = x; _pReadChar =
\* tempReadChar; _pWriteChar = _pService->getCharacteristic(WRITE_CHAR_x); }
\* (lines 559-564, 591-596, 623-628)
subCommit ==
    /\ pc = "sub_commit"
    /\ \/ /\ tmp # NULL
          /\ pService # LIVE
          /\ Crash
       \/ /\ IF tmp # NULL
                THEN /\ type' = probe
                     /\ selected' = probe
                     /\ pReadChar' = tmp
                     /\ Step({}, pService # LIVE \/ tmp # LIVE)
                     /\ \E w \in Lookup(probe \in Profile(deviceAddress).write) :
                           pWriteChar' = w
                ELSE /\ Step({}, FALSE)
                     /\ UNCHANGED << type, selected, pReadChar, pWriteChar >>
          /\ tmp' = NULL
          /\ pc' = "sub_next"
          /\ UNCHANGED << stateVars, pService, timerVars, flagVars, mac,
                          deviceAddress, currentWeight, pClient, pScan, now,
                          envVars, cmd, probe, cbpc >>

\* the guards "if (!_pReadChar)" in front of the NEW and the GENERIC probe and
\* the service lookup behind them (lines 568-570, 601-603)
subNextProbe ==
    /\ pc = "sub_next"
    /\ IF probe = TYPE_GENERIC
          THEN /\ pc' = "sub_chk"
               /\ probe' = TYPE_OLD
               /\ UNCHANGED pService
          ELSE /\ probe' = NextProbe(probe)
               /\ IF pReadChar = NULL
                     THEN /\ pService' = getService(NextProbe(probe))
                          /\ pc' = IF getService(NextProbe(probe)) # NULL
                                      THEN "sub_chars" ELSE "sub_next"
                     ELSE /\ pc' = "sub_next"
                          /\ UNCHANGED pService
    /\ Step({}, FALSE)
    /\ UNCHANGED << stateVars, pWriteChar, pReadChar, timerVars, flagVars,
                    miscVars, pClient, pScan, now, envVars, cmd, tmp, cbpc >>

\* lines 632-645: no characteristic pair found -> disconnect and fail; link
\* lost -> fail
subCheckFound ==
    /\ pc = "sub_chk"
    /\ IF pReadChar = NULL \/ pWriteChar = NULL
          THEN /\ linkUp' = FALSE
               /\ subscribed' = FALSE
               /\ cbpc' = CbAfterDisconnect
               /\ Step({"disconnect"}, FALSE)
               /\ SubFail
          ELSE /\ IF ~linkUp
                     THEN SubFail
                     ELSE /\ pc' = "sub_subscribe"
                          /\ UNCHANGED << stateVars, ctlVars >>
               /\ Step({}, FALSE)
               /\ UNCHANGED << linkUp, subscribed, cbpc >>
    /\ UNCHANGED << handleVars, timerVars, flagVars, miscVars, pClient, pScan,
                    now, scanning >>

\* lines 648-652: _pReadChar->subscribe(true, notifyCallback)
subSubscribe ==
    /\ pc = "sub_subscribe"
    /\ \E r \in CallOutcomes(pReadChar) :
          \/ /\ r = "crash"
             /\ Crash
          \/ /\ r # "crash"
             /\ Step(Issued("subscribe", r), pReadChar # LIVE)
             /\ IF r = "fail"
                   THEN /\ SubFail
                        /\ UNCHANGED subscribed
                   ELSE /\ subscribed' = linkUp
                        /\ pc' = "sub_post"
                        /\ UNCHANGED << stateVars, ctlVars >>
             /\ UNCHANGED << handleVars, timerVars, flagVars, miscVars,
                             pClient, pScan, now, scanning, linkUp, cbpc >>

\* lines 658-662: the re-check after subscribe()
subPostCheck ==
    /\ pc = "sub_post"
    /\ IF pReadChar = NULL \/ pWriteChar = NULL \/ pClient = NULL \/ ~linkUp
          THEN SubFail
          ELSE /\ pc' = "sub_done"
               /\ UNCHANGED << stateVars, ctlVars >>
    /\ Step({}, FALSE)
    /\ UNCHANGED << handleVars, timerVars, flagVars, miscVars, pClient, pScan,
                    now, envVars, cbpc >>

\* line 665: transitionTo(CONN_IDENTIFYING, 5000)
subDone ==
    /\ pc = "sub_done"
    /\ transitionTo(CONN_IDENTIFYING, STEP_TIMEOUT_MS)
    /\ pc' = "upd_ret"
    /\ Step({}, FALSE)
    /\ UNCHANGED << handleVars, timerVars, flagVars, miscVars, pClient, pScan,
                    now, envVars, ctlVars, cbpc >>


\* the guard that opens stateIdentifying(), stateBattery() and
\* stateNotifications(): !_pWriteChar || !_pClient || !_pClient->isConnected()
HandlesLost == pWriteChar = NULL \/ pClient = NULL \/ ~linkUp

\* faulty variant: the comparison is turned around
SettlingInverted == Elapsed(connStateStart) > SETTLE_DELAY_MS

\* millis() - _connStateStart < 200
Settling == Elapsed(connStateStart) < SETTLE_DELAY_MS

\* the part the three settle-delay handlers share: fail when the handles are
\* lost, return while settling, otherwise go on at the label next
SettleGate(next) ==
    /\ IF HandlesLost
          THEN /\ transitionTo(CONN_FAILED, 0)
               /\ pc' = "upd_ret"
          ELSE /\ pc' = IF Settling THEN "upd_ret" ELSE next
               /\ UNCHANGED stateVars
    /\ Step({}, FALSE)
    /\ UNCHANGED << handleVars, timerVars, flagVars, miscVars, pClient, pScan,
                    now, envVars, ctlVars, cbpc >>

\* faulty variant: the result of writeValue() is ignored
HandlerWriteUnchecked(frame, next) ==
    \E r \in CallOutcomes(pWriteChar) :
       \/ /\ r = "crash"
          /\ Crash
       \/ /\ r # "crash"
          /\ Step(Issued(frame, r), pWriteChar # LIVE)
          /\ pc' = next
          /\ UNCHANGED << stateVars, handleVars, timerVars, flagVars,
                          miscVars, pClient, pScan, now, envVars, ctlVars,
                          cbpc >>

\* _pWriteChar->writeValue(frame) inside a handler: failure goes to Failed,
\* success goes on at the label next
HandlerWrite(frame, next) ==
    \E r \in CallOutcomes(pWriteChar) :
       \/ /\ r = "crash"
          /\ Crash
       \/ /\ r # "crash"
          /\ Step(Issued(frame, r), pWriteChar # LIVE)
          /\ IF r = "fail"
                THEN /\ transitionTo(CONN_FAILED, 0)
                     /\ pc' = "upd_ret"
                ELSE /\ pc' = next
                     /\ UNCHANGED stateVars
          /\ UNCHANGED << handleVars, timerVars, flagVars, miscVars, pClient,
                          pScan, now, envVars, ctlVars, cbpc >>

\* the transitionTo() that ends a handler
HandlerDone(newState, timeout) ==
    /\ transitionTo(newState, timeout)
    /\ pc' = "upd_ret"
    /\ Step({}, FALSE)
    /\ UNCHANGED << handleVars, timerVars, flagVars, miscVars, pClient, pScan,
                    now, envVars, ctlVars, cbpc >>

\* void AcaiaArduinoBLE::stateIdentifying(), lines 672-684
stateIdentifying ==
    /\ pc = "stateIdentifying"
    /\ SettleGate("id_write")

\* lines 688-692: _pWriteChar->writeValue(IDENTIFY, 20, true)
identifyWrite ==
    /\ pc = "id_write"
    /\ HandlerWrite("writeIdentify", "id_done")

\* line 695: transitionTo(CONN_BATTERY, 2000)
identifyDone ==
    /\ pc = "id_done"
    /\ HandlerDone(CONN_BATTERY, SHORT_TIMEOUT_MS)

\* void AcaiaArduinoBLE::stateBattery(), lines 702-713
stateBattery ==
    /\ pc = "stateBattery"
    /\ SettleGate("bat_done")

\* faulty variant: a battery query is made and its failure fails the handshake
batteryDoneQueryChecked ==
    /\ pc = "bat_done"
    /\ \E r \in { "ok", "fail" } :
          IF r = "fail"
             THEN HandlerDone(CONN_FAILED, 0)
             ELSE HandlerDone(CONN_NOTIFICATIONS, SHORT_TIMEOUT_MS)

\* line 717: transitionTo(CONN_NOTIFICATIONS, 2000)
batteryDone ==
    /\ pc = "bat_done"
    /\ HandlerDone(CONN_NOTIFICATIONS, SHORT_TIMEOUT_MS)

\* void AcaiaArduinoBLE::stateNotifications(), lines 724-735
stateNotifications ==
    /\ pc = "stateNotifications"
    /\ SettleGate("ntf_write")

\* lines 744-748: _pWriteChar->writeValue(NOTIFICATION_REQUEST, 14, true)
notificationsWrite ==
    /\ pc = "ntf_write"
    /\ HandlerWrite("writeNotificationRequest", "ntf_set")

\* lines 752-754: _connected = true; _lastHeartBeat = millis(); _lastPacket = 0
notificationsSet ==
    /\ pc = "ntf_set"
    /\ connected' = TRUE
    /\ lastHeartBeat' = now
    /\ lastPacket' = 0
    /\ pc' = "ntf_done"
    /\ Step({}, FALSE)
    /\ UNCHANGED << stateVars, handleVars, packetPeriod, deviceFound, miscVars,
                    pClient, pScan, now, envVars, ctlVars, cbpc >>

\* line 755: transitionTo(CONN_CONNECTED, 0)
notificationsDone ==
    /\ pc = "ntf_done"
    /\ HandlerDone(CONN_CONNECTED, 0)

\* faulty variant: the heartbeat timestamp survives the teardown
ClearTimersKeepHeartBeat ==
    /\ lastPacket' = 0
    /\ packetPeriod' = 0
    /\ UNCHANGED lastHeartBeat

\* lines 856-858: _lastPacket = 0; _packetPeriod = 0; _lastHeartBeat = 0
ClearTimers ==
    /\ lastPacket' = 0
    /\ packetPeriod' = 0
    /\ lastHeartBeat' = 0

\* faulty variant: the scan is stopped whether or not one is running
stateFailedAlwaysStops ==
    /\ pc = "stateFailed"
    /\ scanning' = IF pScan # NULL /\ scanning THEN FALSE ELSE scanning
    /\ Step({"scanStop"}
              \cup (IF clientConnected THEN {"disconnect"} ELSE {})
              \cup (IF pClient # NULL THEN {"deleteClient"} ELSE {}),
            FALSE)
    /\ IF pClient # NULL
          THEN /\ linkUp' = FALSE
               /\ subscribed' = FALSE
               /\ cbpc' = CbAfterDelete
          ELSE UNCHANGED << linkUp, subscribed, cbpc >>
    /\ pClient' = NULL
    /\ pService' = NULL
    /\ pWriteChar' = NULL
    /\ pReadChar' = NULL
    /\ deviceFound' = FALSE
    /\ connected' = FALSE
    /\ ClearTimers
    /\ transitionTo(CONN_RECONNECT_DELAY, RECONNECT_DELAY_MS)
    /\ pc' = "upd_ret"
    /\ UNCHANGED << miscVars, pScan, now, ctlVars >>

\* update(), case CONN_FAILED (lines 832-865): the teardown
stateFailed ==
    /\ pc = "stateFailed"
    /\ scanning' = IF pScan # NULL /\ scanning THEN FALSE ELSE scanning
    /\ Step((IF pScan # NULL /\ scanning THEN {"scanStop"} ELSE {})
              \cup (IF clientConnected THEN {"disconnect"} ELSE {})
              \cup (IF pClient # NULL THEN {"deleteClient"} ELSE {}),
            FALSE)
    /\ IF pClient # NULL
          THEN /\ linkUp' = FALSE
               /\ subscribed' = FALSE
               /\ cbpc' = CbAfterDelete
          ELSE UNCHANGED << linkUp, subscribed, cbpc >>
    /\ pClient' = NULL
    /\ pService' = NULL
    /\ pWriteChar' = NULL
    /\ pReadChar' = NULL
    /\ deviceFound' = FALSE
    /\ connected' = FALSE
    /\ ClearTimers
    /\ transitionTo(CONN_RECONNECT_DELAY, RECONNECT_DELAY_MS)
    /\ pc' = "upd_ret"
    /\ UNCHANGED << miscVars, pScan, now, ctlVars >>

\* faulty variant: the window is still open at the instant it ends
stateReconnectDelayInclusive ==
    /\ pc = "stateReconnectDelay"
    /\ pc' = "upd_ret"
    /\ IF Elapsed(connStateStart) <= connTimeout
          THEN /\ Step({}, FALSE)
               /\ UNCHANGED << stateVars, pScan, scanning, selected >>
          ELSE \E avail \in ScanAvailable :
                  IF avail
                     THEN /\ pScan' = LIVE
                          /\ scanning' = TRUE
                          /\ Step({"scanStart"}, FALSE)
                          /\ transitionTo(CONN_SCANNING, SCAN_TIMEOUT_MS)
                          /\ selected' = "none"
                     ELSE /\ pScan' = NULL
                          /\ transitionTo(CONN_IDLE, 0)
                          /\ Step({}, FALSE)
                          /\ UNCHANGED << scanning, selected >>
    /\ UNCHANGED << handleVars, timerVars, flagVars, mac, deviceAddress, type,
                    currentWeight, pClient, now, linkUp, subscribed, ctlVars,
                    cbpc >>

\* update(), case CONN_RECONNECT_DELAY (lines 867-884)
stateReconnectDelay ==
    /\ pc = "stateReconnectDelay"
    /\ pc' = "upd_ret"
    /\ IF Elapsed(connStateStart) < connTimeout
          THEN /\ Step({}, FALSE)
               /\ UNCHANGED << stateVars, pScan, scanning, selected >>
          ELSE \E avail \in ScanAvailable :
                  IF avail
                     THEN /\ pScan' = LIVE
                          /\ scanning' = TRUE
                          /\ Step({"scanStart"}, FALSE)
                          /\ transitionTo(CONN_SCANNING, SCAN_TIMEOUT_MS)
                          /\ selected' = "none"
                     ELSE /\ pScan' = NULL
                          /\ transitionTo(CONN_IDLE, 0)
                          /\ Step({}, FALSE)
                          /\ UNCHANGED << scanning, selected >>
    /\ UNCHANGED << handleVars, timerVars, flagVars, mac, deviceAddress, type,
                    currentWeight, pClient, now, linkUp, subscribed, ctlVars,
                    cbpc >>

\* ---------------------------------------------------------------- commands
\* faulty variant: only the connected flag is consulted
CommandRefusedFlagOnly == ~connected

\* the guard that opens tare(), startTimer(), stopTimer(), resetTimer() and
\* heartbeat(): !_connected || !_pWriteChar || !_pClient || !isConnected()
CommandRefused ==
    ~connected \/ pWriteChar = NULL \/ pClient = NULL \/ ~linkUp

\* tare() / startTimer() / stopTimer() / resetTimer() / heartbeat(): the guard
command(c) ==
    /\ pc = "idle"
    /\ op' = "command"
    /\ tx' = {}
    /\ ub' = FALSE
    /\ ret' = FALSE
    /\ pc' = IF CommandRefused THEN "idle" ELSE "cmd_write"
    /\ cmd' = IF CommandRefused THEN "none" ELSE c
    /\ UNCHANGED << stateVars, handleVars, timerVars, flagVars, miscVars,
                    pClient, pScan, now, envVars, probe, tmp, cbpc >>

\* faulty variant: a failed write fails the session
commandWriteFailsSession ==
    /\ pc = "cmd_write"
    /\ \E r \in CallOutcomes(pWriteChar) :
          \/ /\ r = "crash"
             /\ Crash
          \/ /\ r # "crash"
             /\ Return(r = "ok", Issued("write", r), pWriteChar # LIVE)
             /\ pc' = "idle"
             /\ cmd' = "none"
             /\ IF r = "ok"
                   THEN /\ lastHeartBeat' = IF cmd = "heartbeat" THEN now
                                            ELSE lastHeartBeat
                        /\ UNCHANGED << connected, stateVars >>
                   ELSE /\ connected' = FALSE
                        /\ transitionTo(CONN_FAILED, 0)
                        /\ UNCHANGED lastHeartBeat
             /\ UNCHANGED << handleVars, lastPacket, packetPeriod,
                             deviceFound, miscVars, pClient, pScan, now,
                             envVars, probe, tmp, cbpc >>

\* the writeValue() of the command and its two outcomes
commandWrite ==
    /\ pc = "cmd_write"
    /\ \E r \in CallOutcomes(pWriteChar) :
          \/ /\ r = "crash"
             /\ Crash
          \/ /\ r # "crash"
             /\ Return(r = "ok", Issued("write", r), pWriteChar # LIVE)
             /\ pc' = "idle"
             /\ cmd' = "none"
             /\ IF r = "ok"
                   THEN /\ lastHeartBeat' = IF cmd = "heartbeat" THEN now
                                            ELSE lastHeartBeat
                        /\ UNCHANGED connected
                   ELSE /\ connected' = FALSE
                        /\ UNCHANGED lastHeartBeat
             /\ UNCHANGED << stateVars, handleVars, lastPacket, packetPeriod,
                             deviceFound, miscVars, pClient, pScan, now,
                             envVars, probe, tmp, cbpc >>

\* faulty variant: the period is counted from the entry to the current state
heartbeatDueSinceEntry ==
    /\ type \in { TYPE_OLD, TYPE_NEW }
    /\ Elapsed(connStateStart) > HEARTBEAT_PERIOD_MS

\* the value heartbeatRequired() computes (lines 304-311)
heartbeatDue ==
    /\ type \in { TYPE_OLD, TYPE_NEW }
    /\ Elapsed(lastHeartBeat) > HEARTBEAT_PERIOD_MS

\* bool AcaiaArduinoBLE::heartbeatRequired()
heartbeatRequired ==
    /\ pc = "idle"
    /\ op' = "heartbeatRequired"
    /\ ret' = heartbeatDue
    /\ tx' = {}
    /\ ub' = FALSE
    /\ UNCHANGED << stateVars, handleVars, timerVars, flagVars, miscVars,
                    pClient, pScan, now, envVars, pc, ctlVars, cbpc >>

\* the session fields and the transport a read accessor leaves alone
readFrame ==
    /\ tx' = {}
    /\ ub' = FALSE
    /\ UNCHANGED << stateVars, handleVars, timerVars, flagVars, miscVars,
                    pClient, pScan, now, envVars, pc, ctlVars, cbpc >>

\* faulty variant: reading the weight consumes the packet stamp
getWeightConsuming ==
    /\ pc = "idle"
    /\ op' = "getWeight"
    /\ ret' = currentWeight
    /\ tx' = {}
    /\ ub' = FALSE
    /\ lastPacket' = 0
    /\ UNCHANGED << stateVars, handleVars, packetPeriod, lastHeartBeat,
                    flagVars, miscVars, pClient, pScan, now, envVars, pc,
                    ctlVars, cbpc >>

\* float AcaiaArduinoBLE::getWeight()
getWeight ==
    /\ pc = "idle"
    /\ op' = "getWeight"
    /\ ret' = currentWeight
    /\ readFrame

\* bool AcaiaArduinoBLE::isConnected()
isConnected ==
    /\ pc = "idle"
    /\ op' = "isConnected"
    /\ ret' = connected
    /\ readFrame

\* int AcaiaArduinoBLE::batteryValue(): _currentBattery is assigned by
\* requestBatterySync() only, which nothing calls, so the value read is
\* whatever the member holds
batteryValue ==
    /\ pc = "idle"
    /\ op' = "batteryValue"
    /\ \E b \in Uninitialised : ret' = b
    /\ readFrame

\* ConnectionState AcaiaArduinoBLE::getConnectionState()
getConnectionState ==
    /\ pc = "idle"
    /\ op' = "getConnectionState"
    /\ ret' = connState
    /\ readFrame

\* the switch of getStateString()
StateString(st) ==
    CASE st = CONN_IDLE -> "Idle"
      [] st = CONN_SCANNING -> "Scanning"
      [] st = CONN_CONNECTING -> "Connecting"
      [] st = CONN_DISCOVERING -> "Discovering"
      [] st = CONN_SUBSCRIBING -> "Subscribing"
      [] st = CONN_IDENTIFYING -> "Identifying"
      [] st = CONN_BATTERY -> "Battery"
      [] st = CONN_NOTIFICATIONS -> "Notifications"
      [] st = CONN_CONNECTED -> "Connected"
      [] st = CONN_FAILED -> "Failed"
      [] st = CONN_RECONNECT_DELAY -> "Reconnect Delay"
      [] OTHER -> "Unknown"

\* const char* AcaiaArduinoBLE::getStateString()
getStateString ==
    /\ pc = "idle"
    /\ op' = "getStateString"
    /\ ret' = StateString(connState)
    /\ readFrame

\* bool AcaiaArduinoBLE::newWeightAvailable()
newWeightAvailable ==
    /\ pc = "idle"
    /\ op' = "newWeightAvailable"
    /\ tx' = {}
    /\ ub' = FALSE
    /\ IF lastPacket # 0 /\ Elapsed(lastPacket) > MAX_PACKET_PERIOD_MS
          THEN /\ connected' = FALSE
               /\ connState' = CONN_FAILED
               /\ lastPacket' = 0
               /\ ret' = FALSE
          ELSE /\ ret' = (lastPacket > 0)
               /\ UNCHANGED << connected, connState, lastPacket >>
    /\ UNCHANGED << connStateStart, connTimeout, handleVars, packetPeriod,
                    lastHeartBeat, deviceFound, miscVars, pClient, pScan, now,
                    envVars, pc, ctlVars, cbpc >>

\* --------------------------------------------------------------- callbacks
\* faulty variant: every advertisement is taken for a scale
onResultUnfiltered(name, addr) ==
    /\ scanning
    /\ name \in Advertised(addr)
    /\ scanning' = FALSE
    /\ deviceAddress' = addr
    /\ deviceFound' = TRUE
    /\ Forget
    /\ UNCHANGED << stateVars, handleVars, timerVars, connected, mac, type,
                    selected,
                    currentWeight, pClient, pScan, now, linkUp, subscribed,
                    pc, ctlVars, cbpc >>

\* AcaiaScanCallbacks::onResult(), delivered while the scan runs
onResult(name, addr) ==
    /\ scanning
    /\ name \in Advertised(addr)
    /\ isScaleName(name)
    /\ scanning' = FALSE
    /\ deviceAddress' = addr
    /\ deviceFound' = TRUE
    /\ Forget
    /\ UNCHANGED << stateVars, handleVars, timerVars, connected, mac, type,
                    selected,
                    currentWeight, pClient, pScan, now, linkUp, subscribed,
                    pc, ctlVars, cbpc >>

\* the peer or the radio drops the link: the transport owes one onDisconnect
linkDrop ==
    /\ linkUp
    /\ cbpc = "none"
    /\ linkUp' = FALSE
    /\ subscribed' = FALSE
    /\ cbpc' = "pending"
    /\ Forget
    /\ UNCHANGED << stateVars, handleVars, timerVars, flagVars, miscVars,
                    pClient, pScan, now, scanning, pc, ctlVars >>

\* faulty variant: the handler unsubscribes through the read handle before
\* it clears the handles
onDisconnectUnsubscribing ==
    /\ cbpc = "pending"
    /\ connected' = FALSE
    /\ transitionTo(CONN_FAILED, 0)
    /\ pReadChar' = NULL
    /\ pWriteChar' = NULL
    /\ pService' = NULL
    /\ cbpc' = "none"
    /\ op' = (IF pc = "idle" THEN "none" ELSE op)
    /\ ret' = (IF pc = "idle" THEN FALSE ELSE ret)
    /\ tx' = {"unsubscribe"}
    /\ ub' = (pReadChar # LIVE)
    /\ UNCHANGED << timerVars, deviceFound, miscVars, pClient, pScan, now,
                    envVars, pc, ctlVars >>

\* AcaiaClientCallbacks::onDisconnect(), lines 95-102
onDisconnect ==
    /\ cbpc = "pending"
    /\ connected' = FALSE
    /\ transitionTo(CONN_FAILED, 0)
    /\ pReadChar' = NULL
    /\ pWriteChar' = NULL
    /\ pService' = NULL
    /\ cbpc' = "none"
    /\ Forget
    /\ UNCHANGED << timerVars, deviceFound, miscVars, pClient, pScan, now,
                    envVars, pc, ctlVars >>

\* --------------------------------------------------------------- the codec
\* pData[i], with the frame a sequence of bytes
Byte(p, i) == p[i + 1]

\* (b & 0x02) ? -1 : 1
SignOf(b) == IF (b \div 2) % 2 = 1 THEN -1 ELSE 1

\* the frame shapes handleNotification() accepts (lines 342, 355, 368)
\* faulty variant: the event-type byte is not tested
AcceptsNewNoEventType(p) == Len(p) >= 13 /\ Byte(p, 2) = 12
AcceptsNew(p) == Len(p) >= 13 /\ Byte(p, 2) = 12 /\ Byte(p, 4) = 5
AcceptsOld(p) == Len(p) >= 10
AcceptsGeneric(p) == Len(p) >= 13

Accepts(t, p) ==
    \/ t = TYPE_NEW /\ AcceptsNew(p)
    \/ t = TYPE_OLD /\ AcceptsOld(p)
    \/ t = TYPE_GENERIC /\ AcceptsGeneric(p)

\* the weight handleNotification() computes (lines 345, 358, 371-374)
DecodeNew(p) ==
    Weight(SignOf(Byte(p, 10)) * (Byte(p, 6) * 256 + Byte(p, 5)), Byte(p, 9))
DecodeOld(p) ==
    Weight(SignOf(Byte(p, 7)) * (Byte(p, 3) * 256 + Byte(p, 2)), Byte(p, 6))
\* faulty variant: a '-' gives the negative sign, every other byte the positive
DecodeGenericMinusOnly(p) ==
    Weight((IF Byte(p, 2) = 45 THEN -1 ELSE 1)
             * ( (Byte(p, 3) - 48) * 100000 + (Byte(p, 4) - 48) * 10000
               + (Byte(p, 5) - 48) * 1000 + (Byte(p, 6) - 48) * 100
               + (Byte(p, 7) - 48) * 10 + (Byte(p, 8) - 48) ), 2)
DecodeGeneric(p) ==
    Weight((IF Byte(p, 2) = 43 THEN 1 ELSE -1)
             * ( (Byte(p, 3) - 48) * 100000 + (Byte(p, 4) - 48) * 10000
               + (Byte(p, 5) - 48) * 1000 + (Byte(p, 6) - 48) * 100
               + (Byte(p, 7) - 48) * 10 + (Byte(p, 8) - 48) ), 2)

Decode(t, p) ==
    IF t = TYPE_NEW THEN DecodeNew(p)
    ELSE IF t = TYPE_OLD THEN DecodeOld(p)
    ELSE DecodeGeneric(p)

\* frames the connected scale sends in the session model
FrameNew == << 239, 221, 12, 8, 5, 244, 1, 0, 0, 2, 2, 0, 0 >>
FrameShort == << 239, 221, 0 >>
SessionFrames == { FrameNew, FrameShort }

\* void AcaiaArduinoBLE::handleNotification(), delivered by the host task
\* while the link is up and the read characteristic is subscribed
handleNotification(p) ==
    /\ linkUp
    /\ now \in PacketInstants
    /\ subscribed
    /\ IF Accepts(type, p)
          THEN /\ currentWeight' = Decode(type, p)
               /\ packetPeriod' = IF lastPacket # 0 THEN Elapsed(lastPacket)
                                  ELSE packetPeriod
               /\ lastPacket' = now
          ELSE UNCHANGED << currentWeight, packetPeriod, lastPacket >>
    /\ Forget
    /\ UNCHANGED << stateVars, handleVars, lastHeartBeat, flagVars, mac,
                    deviceAddress, type, selected, pClient, pScan, now,
                    envVars, pc,
                    ctlVars, cbpc >>

\* ------------------------------------------------------------ specification
Next ==
    \/ Tick
    \/ \E m \in Macs : init(m)
    \/ update
    \/ updateReturn
    \/ stateScanning
    \/ stateConnecting
    \/ stateConnectingLinked
    \/ stateDiscovering
    \/ stateSubscribing
    \/ subGetCharacteristics
    \/ subGetCharacteristic
    \/ subCommit
    \/ subNextProbe
    \/ subCheckFound
    \/ subSubscribe
    \/ subPostCheck
    \/ subDone
    \/ stateIdentifying
    \/ identifyWrite
    \/ identifyDone
    \/ stateBattery
    \/ batteryDone
    \/ stateNotifications
    \/ notificationsWrite
    \/ notificationsSet
    \/ notificationsDone
    \/ stateFailed
    \/ stateReconnectDelay
    \/ \E c \in Commands : command(c)
    \/ commandWrite
    \/ newWeightAvailable
    \/ heartbeatRequired
    \/ getWeight
    \/ isConnected
    \/ batteryValue
    \/ getConnectionState
    \/ getStateString
    \/ \E name \in AdvertNames, addr \in Addresses : onResult(name, addr)
    \/ linkDrop
    \/ onDisconnect
    \/ \E p \in SessionFrames : handleNotification(p)

Spec == Init /\ [][Next]_vars

\* ------------------------------------------------- decoder specification
\* handleNotification() applied to frames of every length around the
\* decoders' thresholds, for each scale type, in a session that is Connected
\* and subscribed.
CodecLens == { 0, 9, 10, 11, 12, 13, 14 }

\* frame contents, 14 bytes each; a frame is a prefix of one of them
BodyOld      == << 0, 0, 100, 0, 0, 0, 2, 0, 0, 0, 0, 0, 0, 0 >>
BodyOldNeg   == << 0, 0, 100, 0, 0, 0, 2, 2, 0, 0, 0, 0, 0, 0 >>
BodyOldBit0  == << 0, 0, 100, 0, 0, 0, 2, 1, 0, 0, 0, 0, 0, 0 >>
BodyOldBits  == << 0, 0, 44, 1, 0, 0, 1, 3, 0, 0, 0, 0, 0, 0 >>
BodyNew      == << 239, 221, 12, 8, 5, 244, 1, 0, 0, 2, 2, 0, 0, 0 >>
BodyNewPos   == << 239, 221, 12, 8, 5, 244, 1, 0, 0, 2, 0, 0, 0, 0 >>
BodyNewBit0  == << 239, 221, 12, 8, 5, 10, 0, 0, 0, 1, 1, 0, 0, 0 >>
BodyNewEvent == << 239, 221, 12, 8, 11, 244, 1, 0, 0, 2, 2, 0, 0, 0 >>
BodyNewMsg   == << 239, 221, 8, 8, 5, 244, 1, 0, 0, 2, 2, 0, 0, 0 >>
BodyGeneric  == << 2, 0, 43, 48, 49, 50, 51, 52, 53, 0, 0, 0, 0, 0 >>
BodyGenericMinus == << 2, 0, 45, 48, 49, 50, 51, 52, 53, 0, 0, 0, 0, 0 >>
BodyGenericSpace == << 2, 0, 32, 57, 48, 48, 48, 48, 49, 0, 0, 0, 0, 0 >>

CodecBodies ==
    { BodyOld, BodyOldNeg, BodyOldBit0, BodyOldBits, BodyNew, BodyNewPos,
      BodyNewBit0, BodyNewEvent, BodyNewMsg, BodyGeneric, BodyGenericMinus,
      BodyGenericSpace }

CodecFrames == { SubSeq(b, 1, n) : b \in CodecBodies, n \in CodecLens }

\* a session that stateNotifications() has just completed, for each type
CodecInit ==
    /\ connState = CONN_CONNECTED
    /\ connStateStart = 600
    /\ connTimeout = 0
    /\ mac = ""
    /\ connected = TRUE
    /\ deviceFound = TRUE
    /\ deviceAddress = "aNew"
    /\ type \in scale_type
    /\ currentWeight = Weight(999, 0)
    /\ lastPacket = 0
    /\ packetPeriod = 0
    /\ lastHeartBeat = 600
    /\ pClient = LIVE
    /\ pService = LIVE
    /\ pWriteChar = LIVE
    /\ pReadChar = LIVE
    /\ pScan = LIVE
    /\ now = 600
    /\ scanning = FALSE
    /\ linkUp = TRUE
    /\ subscribed = TRUE
    /\ pc = "idle"
    /\ op = "none"
    /\ cmd = "none"
    /\ probe = TYPE_OLD
    /\ tmp = NULL
    /\ cbpc = "none"
    /\ ret = FALSE
    /\ tx = {}
    /\ ub = FALSE
    /\ selected = type

CodecNext ==
    \/ Tick
    \/ \E p \in CodecFrames : handleNotification(p)

CodecSpec == CodecInit /\ [][CodecNext]_vars

\* ------------------------------------------- field-by-field specification
\* transitionTo() is three separate stores and onDisconnect() runs on another
\* task with no lock: here each store of the two is a step of its own, for a
\* session in one of the handshake states in which the link is up.  tmp holds
\* the arguments of the transitionTo() call the polling context is in.

\* the state that follows st in the handshake
Successor(st) ==
    CASE st = CONN_SCANNING      -> CONN_CONNECTING
      [] st = CONN_CONNECTING    -> CONN_DISCOVERING
      [] st = CONN_DISCOVERING   -> CONN_SUBSCRIBING
      [] st = CONN_SUBSCRIBING   -> CONN_IDENTIFYING
      [] st = CONN_IDENTIFYING   -> CONN_BATTERY
      [] st = CONN_BATTERY       -> CONN_NOTIFICATIONS
      [] st = CONN_NOTIFICATIONS -> CONN_CONNECTED
      [] OTHER                   -> st

\* the timeout argument of the transitionTo() calls that enter st
TimeoutArg(st) ==
    CASE st = CONN_SCANNING -> SCAN_TIMEOUT_MS
      [] st \in { CONN_CONNECTING, CONN_DISCOVERING, CONN_SUBSCRIBING,
                  CONN_IDENTIFYING } -> STEP_TIMEOUT_MS
      [] st \in { CONN_BATTERY, CONN_NOTIFICATIONS } -> SHORT_TIMEOUT_MS
      [] st = CONN_RECONNECT_DELAY -> RECONNECT_DELAY_MS
      [] OTHER -> 0

LinkedStates ==
    { CONN_DISCOVERING, CONN_SUBSCRIBING, CONN_IDENTIFYING, CONN_BATTERY,
      CONN_NOTIFICATIONS }

FieldInit ==
    /\ connState \in LinkedStates
    /\ connStateStart = 0
    /\ connTimeout = TimeoutArg(connState)
    /\ mac = ""
    /\ connected = FALSE
    /\ deviceFound = TRUE
    /\ deviceAddress = "aNew"
    /\ type = TYPE_NEW
    /\ currentWeight = Weight(999, 0)
    /\ lastPacket = 0
    /\ packetPeriod = 0
    /\ lastHeartBeat = 0
    /\ pClient = LIVE
    /\ pService = LIVE
    /\ pWriteChar = LIVE
    /\ pReadChar = LIVE
    /\ pScan = LIVE
    /\ now = 200
    /\ scanning = FALSE
    /\ linkUp = TRUE
    /\ subscribed = FALSE
    /\ pc = "idle"
    /\ op = "none"
    /\ cmd = "none"
    /\ probe = TYPE_OLD
    /\ tmp = NULL
    /\ cbpc = "none"
    /\ ret = FALSE
    /\ tx = {}
    /\ ub = FALSE
    /\ selected = TYPE_NEW

\* the state a handler or the timeout branch of update() moves to from st
FieldTargets(st) ==
    IF st = CONN_FAILED THEN { CONN_RECONNECT_DELAY }
    ELSE IF TimedOut \/ ~linkUp THEN { CONN_FAILED }
    ELSE { Successor(st), CONN_FAILED }

\* update() up to the call of transitionTo(newState, timeout)
updateToTransition ==
    /\ pc = "idle"
    /\ connState \in LinkedStates \cup { CONN_FAILED }
    /\ \E newState \in FieldTargets(connState) :
          tmp' = [newState |-> newState, timeout |-> TimeoutArg(newState)]
    /\ pc' = "tt_state"
    /\ op' = "update" /\ ret' = FALSE /\ tx' = {} /\ ub' = FALSE
    /\ UNCHANGED << stateVars, handleVars, timerVars, flagVars, miscVars,
                    pClient, pScan, now, envVars, cmd, probe, cbpc >>

\* _connState = newState;  (line 432)
transitionToState ==
    /\ pc = "tt_state"
    /\ connState' = tmp.newState
    /\ pc' = "tt_start"
    /\ Step({}, FALSE)
    /\ UNCHANGED << connStateStart, connTimeout, handleVars, timerVars,
                    flagVars, miscVars, pClient, pScan, now, envVars, ctlVars,
                    cbpc >>

\* _connStateStart = millis();  (line 433)
transitionToStart ==
    /\ pc = "tt_start"
    /\ connStateStart' = now
    /\ pc' = "tt_timeout"
    /\ Step({}, FALSE)
    /\ UNCHANGED << connState, connTimeout, handleVars, timerVars, flagVars,
                    miscVars, pClient, pScan, now, envVars, ctlVars, cbpc >>

\* _connTimeout = timeout;  (line 434) and the return of update()
transitionToTimeout ==
    /\ pc = "tt_timeout"
    /\ connTimeout' = tmp.timeout
    /\ pc' = "idle"
    /\ tmp' = NULL
    /\ Return(connState = CONN_CONNECTED, {}, FALSE)
    /\ UNCHANGED << connState, connStateStart, handleVars, timerVars,
                    flagVars, miscVars, pClient, pScan, now, envVars, cmd,
                    probe, cbpc >>

\* onDisconnect(), line 95: _connected = false
onDisconnectFlag ==
    /\ cbpc = "pending"
    /\ connected' = FALSE
    /\ cbpc' = "cb_state"
    /\ Forget
    /\ UNCHANGED << stateVars, handleVars, timerVars, deviceFound, miscVars,
                    pClient, pScan, now, envVars, pc, ctlVars >>

\* onDisconnect(), line 98: transitionTo(CONN_FAILED, 0), first store
onDisconnectState ==
    /\ cbpc = "cb_state"
    /\ connState' = CONN_FAILED
    /\ cbpc' = "cb_start"
    /\ Forget
    /\ UNCHANGED << connStateStart, connTimeout, handleVars, timerVars,
                    flagVars, miscVars, pClient, pScan, now, envVars, pc,
                    ctlVars >>

\* second store
onDisconnectStart ==
    /\ cbpc = "cb_start"
    /\ connStateStart' = now
    /\ cbpc' = "cb_timeout"
    /\ Forget
    /\ UNCHANGED << connState, connTimeout, handleVars, timerVars, flagVars,
                    miscVars, pClient, pScan, now, envVars, pc, ctlVars >>

\* third store
onDisconnectTimeout ==
    /\ cbpc = "cb_timeout"
    /\ connTimeout' = 0
    /\ cbpc' = "cb_handles"
    /\ Forget
    /\ UNCHANGED << connState, connStateStart, handleVars, timerVars,
                    flagVars, miscVars, pClient, pScan, now, envVars, pc,
                    ctlVars >>

\* onDisconnect(), lines 100-102: the three handles
onDisconnectHandles ==
    /\ cbpc = "cb_handles"
    /\ pReadChar' = NULL
    /\ pWriteChar' = NULL
    /\ pService' = NULL
    /\ cbpc' = "none"
    /\ Forget
    /\ UNCHANGED << stateVars, timerVars, flagVars, miscVars, pClient, pScan,
                    now, envVars, pc, ctlVars >>

FieldNext ==
    \/ Tick
    \/ linkDrop
    \/ updateToTransition
    \/ transitionToState
    \/ transitionToStart
    \/ transitionToTimeout
    \/ onDisconnectFlag
    \/ onDisconnectState
    \/ onDisconnectStart
    \/ onDisconnectTimeout
    \/ onDisconnectHandles

FieldSpec == FieldInit /\ [][FieldNext]_vars

\* ================================================================ properties
\* the step in which the polling context enters init()
InitCall == pc = "idle" /\ op' = "init"

\* C1: init() called in any state other than Idle or Failed returns false and
\* leaves the connection state, the state-entry timestamp, the state timeout,
\* the connected flag, the device-found flag and the last-packet timestamp
\* unchanged.
C1_InitRejectedOutsideIdleFailed ==
    [][ (InitCall /\ connState \notin {CONN_IDLE, CONN_FAILED})
          => /\ ret' = FALSE
             /\ UNCHANGED << connState, connStateStart, connTimeout,
                             connected, deviceFound, lastPacket >> ]_vars

\* init() has just been refused in Connected or in the reconnect delay
C1_Witness ==
    /\ pc = "idle" /\ op = "init" /\ ret = FALSE
    /\ connState \in {CONN_CONNECTED, CONN_RECONNECT_DELAY}

\* C2: init() called in Idle or Failed with a scan object available returns
\* true, starts the scan and leaves the session in Scanning, entered now, with
\* a 10000 ms deadline, connected and device-found false and last-packet 0.
C2_InitStartsScan ==
    [][ (InitCall /\ connState \in {CONN_IDLE, CONN_FAILED} /\ pScan' # NULL)
          => /\ ret' = TRUE
             /\ "scanStart" \in tx'
             /\ scanning'
             /\ connState' = CONN_SCANNING
             /\ connStateStart' = now
             /\ connTimeout' = 10000
             /\ connected' = FALSE
             /\ deviceFound' = FALSE
             /\ lastPacket' = 0 ]_vars

\* init() has just been accepted at a later instant than the previous state
\* entry
C2_Witness ==
    /\ pc = "idle" /\ op = "init" /\ ret = TRUE
    /\ connState = CONN_SCANNING /\ connStateStart = now /\ now > 0

\* the step in which the polling context enters update()
UpdateCall == pc = "idle" /\ op' = "update"

\* a step the polling context takes inside update(), the entry included
UpdateStep == op' = "update" /\ (pc = "idle" \/ pc' # pc)

\* the step in which the polling context enters one of the five commands
CommandCall == pc = "idle" /\ op' = "command"

\* C3: the handshake is strictly linear: every change of connection state
\* update() makes out of a handshake state goes to that state's immediate
\* successor or to Failed, and Connected is entered only from Notifications.
C3_HandshakeLinear ==
    [][ /\ (UpdateStep /\ connState \in HandshakeStates
                /\ connState' # connState)
              => connState' \in {Successor(connState), CONN_FAILED}
        /\ (connState' = CONN_CONNECTED /\ connState # CONN_CONNECTED)
              => connState = CONN_NOTIFICATIONS ]_vars

\* the timeout budget of a handshake state
Budget(st) ==
    CASE st = CONN_SCANNING -> 10000
      [] st \in {CONN_BATTERY, CONN_NOTIFICATIONS} -> 2000
      [] OTHER -> 5000

\* C4: update() called in a handshake state S with more than S's budget
\* elapsed since S was entered stops a running scan, disconnects a connected
\* client, moves to Failed, returns false and does not run S's handler.
C4_TimeoutFails ==
    [][ (UpdateCall /\ connState \in HandshakeStates
            /\ now - connStateStart > Budget(connState))
          => /\ scanning' = FALSE
             /\ clientConnected => "disconnect" \in tx'
             /\ linkUp' = FALSE
             /\ connState' = CONN_FAILED
             /\ ret' = FALSE
             /\ pc' = "idle" ]_vars

\* update() has just timed out a state in which the client was connected
C4_Witness ==
    /\ pc = "idle" /\ op = "update" /\ ret = FALSE
    /\ connState = CONN_FAILED /\ "disconnect" \in tx

\* C5: a transport call that fails during the handshake (createClient,
\* connect, subscribe, the Identify write, the notification-enable write)
\* moves the session to Failed in that handler, which then ends without
\* advancing and without setting the connected flag.
C5_TransportFailureFails ==
    [][ (op' = "update" /\ "failed" \in tx')
          => /\ connState' = CONN_FAILED
             /\ pc' = "upd_ret"
             /\ connected' = FALSE ]_vars

\* the notification-enable write has just failed
C5_Witness ==
    /\ op = "update" /\ tx = {"writeNotificationRequest", "failed"}
    /\ connState = CONN_FAILED /\ pc = "upd_ret"

\* C6: once the disconnect callback has been delivered, the session is never
\* left in Connected with the link down.
C6_NeverConnectedWithLinkDown ==
    ~(pc = "idle" /\ cbpc = "none" /\ connState = CONN_CONNECTED /\ ~linkUp)

\* the peer offers no scale type with both characteristics
NoSetMatches ==
    \A t \in scale_type :
        ~(t \in Profile(deviceAddress).read
            /\ t \in Profile(deviceAddress).write)

\* C7: when no characteristic set of the peer yields both a notifiable read
\* and a write characteristic, stateSubscribing() disconnects the client and
\* moves to Failed; Identifying is never entered without both handles and a
\* scale type the peer offers.
C7_NoMatchFails ==
    [][ /\ (pc = "sub_chk" /\ pc' # pc /\ NoSetMatches)
              => /\ connState' = CONN_FAILED
                 /\ linkUp' = FALSE
                 /\ linkUp => "disconnect" \in tx'
        /\ (connState' = CONN_IDENTIFYING /\ connState # CONN_IDENTIFYING)
              => /\ pReadChar' # NULL
                 /\ pWriteChar' # NULL
                 /\ type' \in Profile(deviceAddress).read ]_vars

\* C8: Failed is never followed by Scanning without the reconnect delay in
\* between, and the reconnect delay is left only for the next scan (or for
\* Idle when no scan object is available), never for another delay.
C8_BackoffBeforeScan ==
    [][ /\ ~(connState = CONN_FAILED /\ connState' = CONN_SCANNING)
        /\ (connState = CONN_RECONNECT_DELAY /\ connState' # connState)
              => connState' \in {CONN_SCANNING, CONN_IDLE} ]_vars

\* C9: update() run in Failed performs the whole teardown and enters the
\* reconnect delay with a 500 ms window: no scan running, client disconnected
\* and released, all handles absent, both flags false, all three timers 0.
C9_FailedTeardown ==
    [][ (pc = "stateFailed" /\ pc' # pc)
          => /\ scanning' = FALSE
             /\ linkUp' = FALSE
             /\ clientConnected => "disconnect" \in tx'
             /\ pClient # NULL => "deleteClient" \in tx'
             /\ pClient' = NULL
             /\ pService' = NULL /\ pReadChar' = NULL /\ pWriteChar' = NULL
             /\ deviceFound' = FALSE /\ connected' = FALSE
             /\ lastPacket' = 0 /\ packetPeriod' = 0 /\ lastHeartBeat' = 0
             /\ connState' = CONN_RECONNECT_DELAY
             /\ connStateStart' = now
             /\ connTimeout' = 500 ]_vars

\* the teardown has just released a connected client after a heartbeat was
\* sent
C9_Witness ==
    /\ pc = "upd_ret" /\ op = "update"
    /\ tx = {"disconnect", "deleteClient"}
    /\ connState = CONN_RECONNECT_DELAY /\ lastHeartBeat = 0 /\ now > 0

\* C10: each command returns false, issues no transport write and changes no
\* session field when the session is not Connected, or the write
\* characteristic or the client is absent, or the client is not connected.
C10_CommandRefused ==
    [][ (CommandCall
            /\ (connState # CONN_CONNECTED \/ pWriteChar = NULL
                  \/ pClient = NULL \/ ~linkUp))
          => /\ ret' = FALSE
             /\ tx' = {}
             /\ pc' = "idle"
             /\ UNCHANGED << stateVars, handleVars, timerVars, flagVars,
                             miscVars, pClient, pScan >> ]_vars

\* a command has just been refused in Connected with the connected flag set,
\* because the client reports the link down
C10_Witness ==
    /\ pc = "idle" /\ op = "command" /\ ret = FALSE /\ tx = {}
    /\ connState = CONN_CONNECTED /\ connected /\ pWriteChar # NULL
    /\ pClient # NULL /\ ~linkUp

\* the step in which a command's transport write returns failure
CommandWriteFails == pc = "cmd_write" /\ op' = "command" /\ "failed" \in tx'

\* C11: a command whose transport write fails in Connected returns false,
\* clears the connected flag and leaves the state at Connected; the next
\* update() call (entered in Connected with the flag cleared) then moves the
\* session to Failed.
C11_WriteFailureThenFailed ==
    [][ /\ (CommandWriteFails /\ connState = CONN_CONNECTED)
              => /\ ret' = FALSE
                 /\ connected' = FALSE
                 /\ connState' = CONN_CONNECTED
        /\ (UpdateCall /\ connState = CONN_CONNECTED /\ ~connected)
              => connState' = CONN_FAILED ]_vars

\* no frame has been decoded for longer than the freshness window since the
\* last frame, or since Connected was entered when no frame came at all
FrameOverdue ==
    IF lastPacket # 0 THEN Elapsed(lastPacket) > MAX_PACKET_PERIOD_MS
    ELSE Elapsed(connStateStart) > MAX_PACKET_PERIOD_MS

\* C12: once Connected, when no valid frame has been decoded for more than
\* 8000 ms (also when none arrived at all), the next update() call leaves the
\* connected flag false and the state Failed.
C12_StaleSessionFails ==
    [][ (UpdateCall /\ connState = CONN_CONNECTED /\ FrameOverdue)
          => (connected' = FALSE /\ connState' = CONN_FAILED) ]_vars

\* the step in which update() returns
UpdateReturns == op' = "update" /\ pc' = "idle"

\* C13: update() returns true if and only if the connection state at the
\* moment it returns is Connected.
C13_UpdateTrueIffConnected ==
    [][ UpdateReturns => (ret' = (connState' = CONN_CONNECTED)) ]_vars

\* update() has just returned true from the call that completed the handshake
C13_Witness ==
    /\ pc = "idle" /\ op = "update" /\ ret = TRUE
    /\ connState = CONN_CONNECTED /\ connStateStart = now /\ linkUp

\* ------------------------------------------------------ frame decoding
\* bit 0x02 of a byte
Bit1(b) == (b % 4) >= 2

\* the frame shapes of the three scale types as specified
ShapeOld(p) == Len(p) = 10
ShapeNew(p) == Len(p) >= 13 /\ p[3] = 12 /\ p[5] = 5
ShapeGeneric(p) == Len(p) >= 13
Shape(t, p) ==
    \/ t = TYPE_OLD /\ ShapeOld(p)
    \/ t = TYPE_NEW /\ ShapeNew(p)
    \/ t = TYPE_GENERIC /\ ShapeGeneric(p)

\* a frame was dropped: neither the weight nor the timing fields changed
Dropped == UNCHANGED << currentWeight, lastPacket, packetPeriod >>

\* a frame was taken: the weight is w and the frame is stamped with the clock
Taken(w) == currentWeight' = w /\ lastPacket' = now

\* C14: a frame that fails the shape of the selected scale type, whatever its
\* length and content and whatever the type, leaves the cached weight, the
\* last-packet timestamp, the packet period, the connected flag and the
\* connection state unchanged.
C14_RejectedFrameChangesNothing ==
    [][ \A p \in CodecFrames :
          (handleNotification(p) /\ ~Shape(type, p))
            => UNCHANGED << currentWeight, lastPacket, packetPeriod,
                            connected, connState >> ]_vars

\* C15: with type Old only frames of exactly 10 bytes are taken, every other
\* length is dropped without changing the weight or the timing fields; a taken
\* frame gives (byte[3]*256 + byte[2]) / 10^byte[6], negated iff bit 0x02 of
\* byte[7] is set; bytes[2..3] = (0x64, 0x00), byte[6] = 2, byte[7] = 0 give
\* +1.00.
C15_OldDecoder ==
    [][ \A p \in CodecFrames :
          (handleNotification(p) /\ type = TYPE_OLD)
            => /\ IF Len(p) = 10
                     THEN Taken([ m |-> (IF Bit1(p[8]) THEN -1 ELSE 1)
                                          * (p[4] * 256 + p[3]),
                                  e |-> p[7] ])
                     ELSE Dropped
               /\ (p = SubSeq(BodyOld, 1, 10))
                     => currentWeight' = [ m |-> 100, e |-> 2 ] ]_vars

\* C16: with type New a frame is taken iff its length is at least 13,
\* byte[2] = 0x0C and byte[4] = 0x05; a taken frame gives
\* (byte[6]*256 + byte[5]) / 10^byte[9], negated iff bit 0x02 of byte[10] is
\* set; bytes[5..6] = (0xF4, 0x01), byte[9] = 2, byte[10] = 0x02 give -5.00.
C16_NewDecoder ==
    [][ \A p \in CodecFrames :
          (handleNotification(p) /\ type = TYPE_NEW)
            => /\ IF Len(p) >= 13 /\ p[3] = 12 /\ p[5] = 5
                     THEN Taken([ m |-> (IF Bit1(p[11]) THEN -1 ELSE 1)
                                          * (p[7] * 256 + p[6]),
                                  e |-> p[10] ])
                     ELSE Dropped
               /\ (p = SubSeq(BodyNew, 1, 13))
                     => currentWeight' = [ m |-> -500, e |-> 2 ] ]_vars

\* the New example frame has been decoded to -5.00
C16_Witness ==
    /\ type = TYPE_NEW
    /\ currentWeight = [ m |-> -500, e |-> 2 ]
    /\ lastPacket = now
    /\ packetPeriod = 500

\* C17: with type Generic a frame is taken iff its length is at least 13; the
\* sign is +1 iff byte[2] is '+' and -1 otherwise; the magnitude in hundredths
\* is 100000*d3 + 10000*d4 + 1000*d5 + 100*d6 + 10*d7 + d8 with
\* dk = byte[k] - '0'; byte[2] = '+', bytes[3..8] = "012345" give +123.45.
C17_GenericDecoder ==
    [][ \A p \in CodecFrames :
          (handleNotification(p) /\ type = TYPE_GENERIC)
            => /\ IF Len(p) >= 13
                     THEN Taken([ m |-> (IF p[3] = 43 THEN 1 ELSE -1)
                                          * ( 100000 * (p[4] - 48)
                                            + 10000 * (p[5] - 48)
                                            + 1000 * (p[6] - 48)
                                            + 100 * (p[7] - 48)
                                            + 10 * (p[8] - 48)
                                            + (p[9] - 48) ),
                                  e |-> 2 ])
                     ELSE Dropped
               /\ (p = SubSeq(BodyGeneric, 1, 13))
                     => currentWeight' = [ m |-> 12345, e |-> 2 ] ]_vars

\* the Generic example frame has been decoded to +123.45
C17_Witness ==
    /\ type = TYPE_GENERIC
    /\ currentWeight = [ m |-> 12345, e |-> 2 ]
    /\ lastPacket = now

\* --------------------------------------------------------- name filter
\* the six five-character prefixes of supported scales
AllowList ==
    { << "C", "I", "N", "C", "O" >>, << "A", "C", "A", "I", "A" >>,
      << "P", "Y", "X", "I", "S" >>, << "L", "U", "N", "A", "R" >>,
      << "P", "R", "O", "C", "H" >>, << "F", "E", "L", "I", "C" >> }

\* the first five characters of the name are, case-sensitively, on the list
PrefixAllowed(name) ==
    /\ Len(name) >= 5
    /\ \E q \in AllowList : \A i \in 1..5 : name[i] = q[i]

\* C18: for every candidate name, isScaleName(name) is true iff the first five
\* characters of the name equal, case-sensitively, one of CINCO, ACAIA, PYXIS,
\* LUNAR, PROCH, FELIC; a name shorter than five characters (the empty name
\* too) is rejected, and characters after the fifth never affect the result.
\* (stated for the names the scan callback may be handed while a scan runs)
C18_ScaleNameFilter ==
    scanning =>
      /\ \A name \in AdvertNames : isScaleName(name) = PrefixAllowed(name)
      /\ \A name \in AdvertNames : Len(name) < 5 => ~isScaleName(name)
      /\ \A n1, n2 \in AdvertNames :
            (/\ Len(n1) >= 5 /\ Len(n2) >= 5
             /\ SubSeq(n1, 1, 5) = SubSeq(n2, 1, 5))
              => (isScaleName(n1) = isScaleName(n2))

\* the scan callback has accepted an advertised name and stopped the scan
C18_Witness ==
    /\ connState = CONN_SCANNING
    /\ deviceFound /\ ~scanning
    /\ deviceAddress \in Addresses
    /\ \E name \in AdvertNames : isScaleName(name) /\ Len(name) > 5
    /\ \E name \in AdvertNames : ~isScaleName(name) /\ Len(name) >= 5

\* ------------------------------------------------------------ heartbeat
\* the step in which heartbeat() returns after a successful write
HeartbeatSent ==
    /\ pc = "cmd_write" /\ cmd = "heartbeat"
    /\ pc' = "idle" /\ op' = "command" /\ ret' = TRUE

\* the step in which heartbeat() returns after a failed write
HeartbeatFailed ==
    /\ pc = "cmd_write" /\ cmd = "heartbeat"
    /\ pc' = "idle" /\ op' = "command" /\ "failed" \in tx'

\* a call of heartbeatRequired()
HeartbeatRequiredCall == pc = "idle" /\ op' = "heartbeatRequired"

\* C19: heartbeatRequired() is false for type Generic at all times; for Old
\* and New it is true exactly when more than 2750 ms have elapsed since the
\* last successful heartbeat() write, or since the entry to Connected when no
\* heartbeat was sent yet; a heartbeat() whose write fails does not reset the
\* period.  The reference instant is carried by lastHeartBeat: it is set to
\* the clock on entry to Connected and by a successful heartbeat(), and by
\* nothing else while the session stays Connected.
C19_HeartbeatDue ==
    [][ /\ HeartbeatRequiredCall
              => /\ type = TYPE_GENERIC => ret' = FALSE
                 /\ type # TYPE_GENERIC
                       => ret' = ((now - lastHeartBeat) % 1073741824 > 2750)
        /\ (connState # CONN_CONNECTED /\ connState' = CONN_CONNECTED)
              => lastHeartBeat' = now'
        /\ HeartbeatSent => lastHeartBeat' = now'
        /\ HeartbeatFailed => lastHeartBeat' = lastHeartBeat
        /\ (connState = CONN_CONNECTED /\ connState' = CONN_CONNECTED
             /\ ~HeartbeatSent)
              => lastHeartBeat' = lastHeartBeat ]_vars

\* heartbeatRequired() has returned true in a Connected session in which a
\* heartbeat was sent after the entry to Connected
C19_Witness ==
    /\ pc = "idle" /\ op = "heartbeatRequired" /\ ret = TRUE
    /\ connState = CONN_CONNECTED /\ connected
    /\ type = TYPE_NEW
    /\ lastHeartBeat > connStateStart
    /\ now - lastHeartBeat > 2750

\* ------------------------------------------------------- type selection
\* the step of the Subscribing handler that assigns _type
TypeAssigned == pc = "sub_commit" /\ tmp # NULL /\ pc' = "sub_next"

\* C20: within one connection attempt (from the entry to Scanning until the
\* next entry to Failed) the scale type is assigned at most once, only inside
\* the Subscribing handler, and never reassigned afterwards, also when a
\* disconnect event clears the read handle between the probes; the type in
\* force while Connected is the one selected in that attempt's Subscribing
\* step.
C20_TypeSelectedOncePerAttempt ==
    [][ /\ type' # type => TypeAssigned
        /\ TypeAssigned => selected = "none"
        /\ connState' = CONN_CONNECTED => selected' = type' ]_vars

\* -------------------------------------------------------- settle delay
\* the three states whose handler waits before it acts
SettleStates == { CONN_IDENTIFYING, CONN_BATTERY, CONN_NOTIFICATIONS }

\* the label at which the handler of a settle state acts
ActLabel(st) ==
    CASE st = CONN_IDENTIFYING -> "id_write"
      [] st = CONN_BATTERY -> "bat_done"
      [] st = CONN_NOTIFICATIONS -> "ntf_write"

\* the handler of st acts only at its label, which it reaches only in state
\* st, 200 ms or more after st was entered, the clock standing still since
DelayPrecedesAct ==
    /\ "writeIdentify" \in tx' => pc = "id_write"
    /\ "writeNotificationRequest" \in tx' => pc = "ntf_write"
    /\ (connState = CONN_BATTERY /\ connState' = CONN_NOTIFICATIONS)
          => pc = "bat_done"
    /\ \A st \in SettleStates :
          (pc' = ActLabel(st) /\ pc # ActLabel(st))
            => /\ connState = st
               /\ (now - connStateStart) % 1073741824 >= 200
    /\ \A st \in SettleStates : pc = ActLabel(st) => now' = now

\* a step of update() taken in a settle state before its delay has elapsed
EarlyUpdateStep ==
    /\ UpdateStep
    /\ connState \in SettleStates
    /\ (now - connStateStart) % 1073741824 < 200

C22_FreshHandles ==
    connState \in { CONN_SCANNING, CONN_CONNECTING, CONN_DISCOVERING }
      => (pService = NULL /\ pReadChar = NULL /\ pWriteChar = NULL)

\* the statements that call through the write, the read and the service handle
UsesWriteChar == pc \in { "cmd_write", "id_write", "ntf_write" }
UsesReadChar == pc = "sub_subscribe"
UsesService ==
    pc \in { "sub_chars", "sub_getchar" } \/ (pc = "sub_commit" /\ tmp # NULL)

\* C23: with the disconnect callback free to run between any two statements
\* of the polling context, no command and no handshake handler performs a
\* transport operation through a service or characteristic handle that is
\* absent at the moment of the call.
C23_NoCallThroughAbsentHandle ==
    [][ /\ (UsesWriteChar /\ pc' # pc) => pWriteChar # NULL
        /\ (UsesReadChar /\ pc' # pc) => pReadChar # NULL
        /\ (UsesService /\ pc' # pc) => pService # NULL ]_vars

\* ------------------------------------------------------ state triple
\* the state is paired with the timeout of the transitionTo() that enters it
Paired == connTimeout = TimeoutArg(connState)

\* C24: the polling context never observes a torn session state: with the
\* stores of the disconnect callback interleaved at any point with the stores
\* of update()'s own transitionTo, the triple (state, entry time, timeout)
\* held after both have finished is the triple of a single transitionTo call,
\* and update() never reads a state paired with another state's timeout.
C24_NoTornState ==
    [][ /\ (pc' = "idle" /\ cbpc' = "none") => (Paired' /\ connStateStart' <= now')
        /\ (pc = "idle" /\ pc' = "tt_state" /\ TimedState(connState))
              => Paired ]_vars

\* ------------------------------------------------------------------ Idle
\* C25: Idle is stable: a session in Idle leaves Idle only through an init()
\* call that returns true; update(), the commands, the read accessors,
\* newWeightAvailable() and every asynchronous event leave it in Idle.
C25_IdleStable ==
    [][ (connState = CONN_IDLE /\ connState' # CONN_IDLE)
          => (InitCall /\ ret' = TRUE) ]_vars

\* ------------------------------------------------ polling specification
\* The application polls update() for ever while the clock keeps advancing.
\* The clock is followed up to LiveHorizon; past it the present stays at
\* LiveHorizon and every time stamp moves back by the same amount, which keeps
\* each millis() - stamp difference, until a stamp is older than every period
\* of the program and stays at that age.
LiveHorizon == 10400

\* the clock advances between two calls by one of these amounts
LiveSteps == { 1300, 5200 }

\* a time stamp after the present moved back by s (0 is kept: it is the
\* "never" value of _lastPacket)
Rebase(t, s) == IF t = 0 THEN 0 ELSE IF t > s THEN t - s ELSE 1

LiveTick ==
    /\ pc = "idle"
    /\ \E d \in LiveSteps :
          LET shift == IF now + d > LiveHorizon
                          THEN now + d - LiveHorizon ELSE 0
          IN  /\ now' = now + d - shift
              /\ connStateStart' = Rebase(connStateStart, shift)
              /\ lastPacket' = Rebase(lastPacket, shift)
              /\ lastHeartBeat' = Rebase(lastHeartBeat, shift)
    /\ Forget
    /\ UNCHANGED << connState, connTimeout, handleVars, packetPeriod,
                    flagVars, miscVars, pClient, pScan, envVars, pc, ctlVars,
                    cbpc >>

\* the statements of update() after its entry
PollSteps ==
    \/ updateReturn
    \/ stateScanning
    \/ stateConnecting
    \/ stateConnectingLinked
    \/ stateDiscovering
    \/ stateSubscribing
    \/ subGetCharacteristics
    \/ subGetCharacteristic
    \/ subCommit
    \/ subNextProbe
    \/ subCheckFound
    \/ subSubscribe
    \/ subPostCheck
    \/ subDone
    \/ stateIdentifying
    \/ identifyWrite
    \/ identifyDone
    \/ stateBattery
    \/ batteryDone
    \/ stateNotifications
    \/ notificationsWrite
    \/ notificationsSet
    \/ notificationsDone
    \/ stateFailed
    \/ stateReconnectDelay

LiveNext ==
    \/ LiveTick
    \/ \E m \in Macs : init(m)
    \/ update
    \/ PollSteps
    \/ \E c \in Commands : command(c)
    \/ commandWrite
    \/ newWeightAvailable
    \/ \E name \in AdvertNames, addr \in Addresses : onResult(name, addr)
    \/ linkDrop
    \/ onDisconnect

\* update() is called again and again, a call that has started runs to its
\* end, and the clock keeps advancing
LiveSpec ==
    /\ Init
    /\ [][LiveNext]_vars
    /\ SF_vars(update)
    /\ WF_vars(PollSteps \/ commandWrite)
    /\ SF_vars(LiveTick)

\* ---------------------------------------------------------- read accessors
ReadAccessors ==
    { "getWeight", "batteryValue", "isConnected", "getStateString",
      "getConnectionState" }

ReadCall == pc = "idle" /\ op' \in ReadAccessors

\* C26: getWeight(), batteryValue(), isConnected(), getStateString() and
\* getConnectionState() are pure reads: in every reachable state a call to one
\* of them changes no session field and issues no transport operation.
C26_PureReads ==
    [][ ReadCall
          => /\ UNCHANGED << stateVars, handleVars, timerVars, flagVars,
                             miscVars, pClient, pScan >>
             /\ UNCHANGED envVars
             /\ tx' = {}
             /\ ub' = FALSE ]_vars

\* a read accessor has been called on a connected session holding a weight
C26_Witness ==
    /\ op \in ReadAccessors
    /\ pc = "idle"
    /\ connState = CONN_CONNECTED
    /\ lastPacket # 0

\* -------------------------------------------------------------- termination
\* the polling context died in a transport call that did not return
Crashed == pc = "crashed"

\* C27: no handshake runs for ever: with update() called repeatedly, the clock
\* advancing and every transport call returning, a session in Scanning,
\* Connecting, Discovering, Subscribing, Identifying, Battery or Notifications
\* eventually reaches Connected or Failed, and a session in Failed eventually
\* reaches Scanning or Idle.
C27_HandshakeEnds ==
    /\ (connState \in HandshakeStates)
          ~> (connState \in { CONN_CONNECTED, CONN_FAILED } \/ Crashed)
    /\ (connState = CONN_FAILED)
          ~> (connState \in { CONN_SCANNING, CONN_IDLE } \/ Crashed)

\* ---------------------------------------------------------- ReconnectDelay
\* the step of update() that runs the ReconnectDelay case
ReconnectDelayStep == pc = "stateReconnectDelay" /\ pc' # pc

\* 500 ms have passed since ReconnectDelay was entered
WindowElapsed == Elapsed(connStateStart) >= RECONNECT_DELAY_MS

\* update() called in ReconnectDelay goes to the ReconnectDelay case with
\* nothing changed, and the case runs in ReconnectDelay
ReconnectDelayDispatch ==
    /\ (UpdateCall /\ connState = CONN_RECONNECT_DELAY)
          => /\ pc' = "stateReconnectDelay"
             /\ tx' = {}
             /\ UNCHANGED << stateVars, mac, scanning >>
    /\ ReconnectDelayStep => connState = CONN_RECONNECT_DELAY

\* the scan is restarted: Scanning, entered now, 10000 ms, same target
ScanRestarted ==
    /\ connState' = CONN_SCANNING
    /\ connStateStart' = now
    /\ connTimeout' = SCAN_TIMEOUT_MS
    /\ "scanStart" \in tx'
    /\ scanning'
    /\ mac' = mac

\* the call leaves the session in ReconnectDelay and starts no scan
StillWaiting ==
    /\ tx' = {}
    /\ UNCHANGED << stateVars, mac, scanning >>

DisconnectStep == cbpc = "pending" /\ cbpc' = "none" /\ pc' = pc

\* a handle is left alone or set to absent
OnlyCleared(before, after) == after = before \/ after = NULL

\* C29: the asynchronous disconnect handler only ever clears the handle set:
\* every write it makes to the service, read-characteristic or
\* write-characteristic handle sets it to absent, it never assigns a
\* non-absent handle, and it performs no transport operation through a handle.
C29_DisconnectOnlyClears ==
    [][ DisconnectStep
          => /\ OnlyCleared(pService, pService')
             /\ OnlyCleared(pReadChar, pReadChar')
             /\ OnlyCleared(pWriteChar, pWriteChar')
             /\ tx' = {}
             /\ ub' = FALSE ]_vars

\* the handler has run on a session that had chosen its characteristics: the
\* client is still held, the handles are gone
C29_Witness ==
    /\ cbpc = "none"
    /\ connState = CONN_FAILED
    /\ connStateStart = now
    /\ selected # "none"
    /\ pClient = LIVE
    /\ ~linkUp
    /\ pService = NULL
    /\ pReadChar = NULL
    /\ pWriteChar = NULL
    /\ op = "none"

\* ------------------------------------------------------ repeated teardown
\* the step of update() that runs the Failed case
TeardownStep == pc = "stateFailed" /\ pc' # pc

\* handles absent, client released, timers zero
TornDown ==
    /\ pService = NULL /\ pReadChar = NULL /\ pWriteChar = NULL
    /\ pClient = NULL
    /\ lastPacket = 0 /\ packetPeriod = 0 /\ lastHeartBeat = 0

\* C30: the Failed teardown is idempotent: update() run in Failed on a session
\* whose handles are already absent, whose client is already released and
\* whose timers are already zero issues no disconnect and no scan-stop call,
\* and leaves the handles absent, the flags false and the timers 0 before it
\* enters ReconnectDelay.
C30_TeardownIdempotent ==
    [][ /\ (UpdateCall /\ connState = CONN_FAILED /\ TornDown)
              => (pc' = "stateFailed" /\ tx' = {} /\ TornDown')
        /\ (TeardownStep /\ TornDown)
              => /\ "disconnect" \notin tx'
                 /\ "scanStop" \notin tx'
                 /\ TornDown'
                 /\ ~deviceFound' /\ ~connected'
                 /\ connState' = CONN_RECONNECT_DELAY ]_vars

\* the Failed case has just run, after the scan started by init() timed out,
\* on a session with nothing left to release: it issued no transport call
C30_Witness ==
    /\ pc = "upd_ret" /\ op = "update"
    /\ connState = CONN_RECONNECT_DELAY
    /\ tx = {}
    /\ TornDown
    /\ mac \in Macs
    /\ now = MaxTime
    /\ connStateStart = MaxTime

\* --------------------------------------------------- one transition a call
\* a step of update() in which the polling context stores a new state triple
TransitionStep == UpdateStep /\ stateVars' # stateVars

\* C31: each update() call makes at most one change of connection state: it
\* fires the timeout transition to Failed and returns, or it runs one state
\* handler that calls transitionTo at most once; after the transition the
\* call only returns, so no call advances through two handshake states.
C31_OneTransitionPerCall ==
    [][ /\ TransitionStep => pc' \in { "upd_ret", "idle" }
        /\ (UpdateCall /\ TimedState(connState) /\ TimedOut)
              => (connState' = CONN_FAILED /\ pc' = "idle")
        /\ (UpdateCall /\ pc' # "idle") => UNCHANGED stateVars
        /\ (pc = "upd_ret" /\ pc' # pc)
              => (pc' = "idle" /\ UNCHANGED stateVars) ]_vars

\* an update() call has moved the session from Discovering to Subscribing and
\* is about to return
C31_Witness ==
    /\ pc = "upd_ret" /\ op = "update"
    /\ connState = CONN_SUBSCRIBING
    /\ connStateStart = now
    /\ pService = NULL
    /\ linkUp

\* ---------------------------------------------------------------- Battery
\* the step of update() that runs the guard and the delay of stateBattery()
BatteryGateStep == pc = "stateBattery" /\ pc' # pc

\* the step of update() that ends stateBattery()
BatteryDoneStep == pc = "bat_done" /\ pc' # pc

\* C32: the Battery state is best-effort: whenever update() runs in Battery
\* with the write handle present, the client connected, at least 200 ms
\* elapsed and the 2000 ms deadline not exceeded, the session moves to
\* Notifications; no battery query is made whose outcome could move the
\* session to Failed or hold the handshake.
C32_BatteryBestEffort ==
    [][ /\ (UpdateCall /\ connState = CONN_BATTERY /\ ~TimedOut)
              => (pc' = "stateBattery" /\ tx' = {} /\ UNCHANGED stateVars)
        /\ (BatteryGateStep /\ ~HandlesLost
                /\ Elapsed(connStateStart) >= SETTLE_DELAY_MS)
              => (pc' = "bat_done" /\ tx' = {} /\ UNCHANGED stateVars)
        /\ (BatteryGateStep /\ connState' = CONN_FAILED
                /\ connState # CONN_FAILED)
              => HandlesLost
        /\ BatteryDoneStep
              => /\ connState' = CONN_NOTIFICATIONS
                 /\ connStateStart' = now
                 /\ connTimeout' = SHORT_TIMEOUT_MS
                 /\ pc' = "upd_ret"
                 /\ tx' = {} ]_vars

\* an update() call has just moved a linked session from Battery to
\* Notifications
C32_Witness ==
    /\ pc = "upd_ret" /\ op = "update"
    /\ connState = CONN_NOTIFICATIONS
    /\ connStateStart = now
    /\ pWriteChar = LIVE
    /\ linkUp

\* ---------------------------------------------------------- device found
\* init() got past its guard
InitAccepted == InitCall /\ ~initRejects

\* C33: the session leaves Scanning for Connecting only when the device-found
\* flag is set; the flag is set only by the scan callback, for an
\* advertisement whose name passes isScaleName; it is false immediately after
\* an accepted init() and immediately after the Failed teardown; and the
\* address passed to connect() is that of an advertisement that passed the
\* filter.
C33_DeviceFound ==
    [][ /\ (connState = CONN_SCANNING /\ connState' = CONN_CONNECTING)
              => deviceFound
        /\ (~deviceFound /\ deviceFound')
              => /\ scanning
                 /\ pc' = pc
                 /\ deviceAddress' \in Addresses \ { "aOther" }
        /\ deviceAddress' # deviceAddress => deviceFound'
        /\ InitAccepted => ~deviceFound'
        /\ TeardownStep => ~deviceFound'
        /\ "connect" \in tx'
              => /\ deviceFound
                 /\ deviceAddress \in Addresses \ { "aOther" } ]_vars

\* connect() has just been called with the address the scan callback stored
C33_Witness ==
    /\ "connect" \in tx
    /\ op = "update"
    /\ deviceAddress = "aNoWr"
    /\ connState \in { CONN_CONNECTING, CONN_FAILED }

\* ------------------------------------------------------ state and flag
\* no update(), command or callback is in the middle of executing
Quiescent == pc = "idle" /\ cbpc \in { "none", "pending" }

\* C34: at every point where no update(), command or callback is in the
\* middle of executing, the connection state is Connected if and only if
\* isConnected() is true; in particular update() never returns true while
\* isConnected() is false.
C34_ConnectedIffFlag ==
    Quiescent
      => /\ (connState = CONN_CONNECTED) <=> connected
         /\ (op = "update" /\ ret = TRUE) => connected

\* ------------------------------------------- freshness outside Connected
\* the application calls newWeightAvailable()
NewWeightCall == pc = "idle" /\ op' = "newWeightAvailable"

\* C35: the freshness check of newWeightAvailable() changes the connection
\* state only when the session is Connected: called in Idle, Failed,
\* ReconnectDelay or a handshake state, after any sequence of notifications,
\* it never sets the state to Failed and never clears the connected flag.
C35_FreshnessOnlyWhenConnected ==
    [][ (NewWeightCall /\ connState # CONN_CONNECTED)
          => (connState' = connState /\ connected' = connected) ]_vars

\* ------------------------------------------------------- init() refused
\* C36: every init() call that returns false leaves all session fields
\* unchanged, the refusal for want of a scan object in Idle or Failed
\* included: target address, last-packet timestamp, connected flag and
\* device-found flag keep their values.
C36_RefusedInitChangesNothing ==
    [][ (InitCall /\ ret' = FALSE)
          => UNCHANGED << stateVars, handleVars, timerVars, flagVars, mac,
                          deviceAddress, type, currentWeight, pClient,
                          pScan >> ]_vars

\* ------------------------------------------------------ entering Connected
\* the step of update() that stores Connected (stateNotifications, line 755)
ConnectedEntry == pc = "ntf_done" /\ pc' # pc

\* C37: on the update() call that enters Connected the connected flag becomes
\* true, the last-heartbeat timestamp is the current time and the last-packet
\* timestamp is 0 (or the time of a frame decoded since the reset), so right
\* after the entry heartbeatRequired() is false, and newWeightAvailable() is
\* false until the first valid frame of the connection is decoded.
C37_ConnectedEntry ==
    [][ /\ ConnectedEntry
              => /\ connState' = CONN_CONNECTED
                 /\ connected'
                 /\ lastHeartBeat' = now
                 /\ lastPacket' = 0 \/ lastPacket' = now
                 /\ ~heartbeatDue'
        /\ (NewWeightCall /\ connState = CONN_CONNECTED /\ lastPacket = 0)
              => ret' = FALSE
        /\ (connState = CONN_CONNECTED /\ connState' = CONN_CONNECTED
                /\ lastPacket = 0 /\ lastPacket' # 0)
              => \E p \in SessionFrames :
                    Accepts(type, p) /\ currentWeight' = Decode(type, p) ]_vars

\* ------------------------------------------------------ leaving Connected
\* C38: Connected is left only through the asynchronous disconnect handler
\* or the freshness check of newWeightAvailable(): update(), init(), the read
\* accessors, notifications and every command call, whether its write
\* succeeds or fails, leave a Connected session in Connected.
C38_ConnectedStable ==
    [][ (connState = CONN_CONNECTED /\ connState' # CONN_CONNECTED)
          => (DisconnectStep \/ NewWeightCall) ]_vars

\* a command whose write failed has just returned on a session that is still
\* Connected
C38_Witness ==
    /\ connState = CONN_CONNECTED
    /\ op = "command" /\ pc = "idle"
    /\ "failed" \in tx
    /\ ~connected

====
